---- MODULE Spec2Model ----
(***************************************************************************)
(* Connection handlers of the ScreenKnow backend: audio_stream             *)
(* (backend/main.py) and the voice handlers of pipecat_simple_endpoint.py, *)
(* simple_pipecat.py and pipecat_handler.py.  Each handler is a sequential *)
(* program; every external call (WebSocket, screen capture, file system,   *)
(* provider SDK) is a step whose outcome the environment chooses.          *)
(***************************************************************************)
EXTENDS Integers, Sequences, FiniteSets, TLC

VARIABLES
    handler,   \* handler[c]: the handler function serving connection c
    pc,        \* pc[c]: position of the handler's coroutine
    loc,       \* loc[c]: the handler's local variables
    log,       \* log[c]: history of the external calls the handler made
    fs,        \* fs[path]: 0 when the file is absent, else the id of its writer
    env        \* module-level configuration read from the environment

vars == <<handler, pc, loc, log, fs, env>>

\* ------------------------------------------------------------------ bounds
\* frames (other than END_OF_STREAM) a client sends on one connection
MaxRecv == 1
\* chunks the text provider streams in one answer
MaxChunks == 2
\* increments of an answer to each of the concurrent connections
MaxTexts == 1
\* increments of an answer where the image follow-up is followed
MaxAnswer == 3
\* frames a client sends where only the receive loop and the provider request
\* are followed
MaxFrames == 3
\* key events delivered to the command-line app
MaxKeys == 3

Conns == {1}

\* ------------------------------------------------------------- text values
\* Python str values are sequences of one-character strings.
NoneStr == "None"

IsSpace(ch) == ch \in {" ", "\n", "\r", "\t"}

LowerLetters == <<"a","b","c","d","e","f","g","h","i","j","k","l","m",
                  "n","o","p","q","r","s","t","u","v","w","x","y","z">>
UpperLetters == <<"A","B","C","D","E","F","G","H","I","J","K","L","M",
                  "N","O","P","Q","R","S","T","U","V","W","X","Y","Z">>

UpperChar(ch) ==
    IF \E i \in DOMAIN LowerLetters : LowerLetters[i] = ch
    THEN UpperLetters[CHOOSE i \in DOMAIN LowerLetters : LowerLetters[i] = ch]
    ELSE ch

\* str.upper()
Upper(s) == [i \in DOMAIN s |-> UpperChar(s[i])]

RECURSIVE LStrip(_)
LStrip(s) == IF s # <<>> /\ IsSpace(Head(s)) THEN LStrip(Tail(s)) ELSE s

RECURSIVE RStrip(_)
RStrip(s) ==
    IF s # <<>> /\ IsSpace(s[Len(s)]) THEN RStrip(SubSeq(s, 1, Len(s) - 1)) ELSE s

\* str.strip()
Strip(s) == RStrip(LStrip(s))

\* str.startswith(p)
StartsWith(s, p) == Len(s) >= Len(p) /\ SubSeq(s, 1, Len(p)) = p

\* str.splitlines(): lines end at \n, \r or \r\n; the terminators are dropped
\* and a final terminator opens no empty last line.
RECURSIVE SplitLinesFrom(_, _)
SplitLinesFrom(s, line) ==
    IF s = <<>> THEN (IF line = <<>> THEN <<>> ELSE <<line>>)
    ELSE IF Head(s) = "\r" /\ Len(s) >= 2 /\ s[2] = "\n"
         THEN <<line>> \o SplitLinesFrom(Tail(Tail(s)), <<>>)
    ELSE IF Head(s) \in {"\n", "\r"}
         THEN <<line>> \o SplitLinesFrom(Tail(s), <<>>)
    ELSE SplitLinesFrom(Tail(s), Append(line, Head(s)))

SplitLines(s) == SplitLinesFrom(s, <<>>)

\* line.split(":", 1)[1]: what follows the first colon of the line
RECURSIVE AfterFirstColon(_)
AfterFirstColon(s) ==
    IF s = <<>> THEN <<>>
    ELSE IF Head(s) = ":" THEN Tail(s)
    ELSE AfterFirstColon(Tail(s))

IMAGE_PROMPT_MARKER == <<"I","M","A","G","E","_","P","R","O","M","P","T",":">>

\* the loop without its break: the last marker line decides
RECURSIVE FirstImagePrompt_NoBreak(_)
FirstImagePrompt_NoBreak(lines) ==
    IF lines = <<>> THEN <<>>
    ELSE IF StartsWith(Upper(Strip(lines[Len(lines)])), IMAGE_PROMPT_MARKER)
         THEN Strip(AfterFirstColon(lines[Len(lines)]))
    ELSE FirstImagePrompt_NoBreak(SubSeq(lines, 1, Len(lines) - 1))

\* The loop over collected_text.splitlines(): the first line whose stripped,
\* upper-cased form starts with the marker decides; None when there is none.
RECURSIVE FirstImagePrompt(_)
FirstImagePrompt(lines) ==
    IF lines = <<>> THEN <<>>
    ELSE IF StartsWith(Upper(Strip(Head(lines))), IMAGE_PROMPT_MARKER)
         THEN Strip(AfterFirstColon(Head(lines)))
    ELSE FirstImagePrompt(Tail(lines))

\* image_prompt of the follow-up; <<>> stands for both None and "" (both falsy)
ImagePromptOf(collected_text) == FirstImagePrompt(SplitLines(collected_text))

\* ---------------------------------------------------------------- base64
\* base64.b64encode on a sequence of bytes (0..255): sequence of 6-bit digit
\* values, 64 standing for the padding character '='.
B64Pad == 64

RECURSIVE B64Encode(_)
B64Encode(b) ==
    IF b = <<>> THEN <<>>
    ELSE IF Len(b) = 1
         THEN << b[1] \div 4, (b[1] % 4) * 16, B64Pad, B64Pad >>
    ELSE IF Len(b) = 2
         THEN << b[1] \div 4, (b[1] % 4) * 16 + (b[2] \div 16),
                 (b[2] % 16) * 4, B64Pad >>
    ELSE << b[1] \div 4, (b[1] % 4) * 16 + (b[2] \div 16),
            (b[2] % 16) * 4 + (b[3] \div 64), b[3] % 64 >>
         \o B64Encode(SubSeq(b, 4, Len(b)))

\* ------------------------------------------------------- external inputs
\* Outcome of an external call: "ok", or the name of the exception it raises.
WsOutcomes == {"ok", "WebSocketDisconnect", "RuntimeError"}
\* the same where every exception is handled alike
CallOutcomes == {"ok", "RuntimeError"}
FileOutcomes == {"ok", "OSError"}
ProviderOutcomes == {"ok", "ProviderError"}

\* sct.shot(output=path): returns or raises, having written the file or not
ShotOutcomes ==
    {[out |-> "ok", file |-> TRUE], [out |-> "ok", file |-> FALSE],
     [out |-> "ScreenShotError", file |-> FALSE],
     [out |-> "ScreenShotError", file |-> TRUE]}

\* payloads of binary frames
AudioFrames == {<<>>, <<7>>, <<8>>}

END_OF_STREAM == "END_OF_STREAM"
CfgWav == "{\"type\": \"config\", \"audio_mime_type\": \"audio/wav\"}"
CfgMp4 == "{\"type\": \"config\", \"audio_mime_type\": \"audio/mp4\"}"
CfgNoMime == "{\"type\": \"config\"}"
JsonPing == "{\"type\": \"ping\", \"audio_mime_type\": \"audio/ogg\"}"
NotJson == "hello"

TextFrames == {END_OF_STREAM, CfgWav, CfgMp4, CfgNoMime, JsonPing, NotJson}

\* ASGI messages websocket.receive() returns
ClientMessages ==
    {[type |-> "websocket.receive", bytes |-> b] : b \in AudioFrames}
    \cup {[type |-> "websocket.receive", text |-> t] : t \in TextFrames}
    \cup {[type |-> "websocket.disconnect"]}

\* the messages of a client that sends one kind of audio frame and one
\* configuration
StreamMessages ==
    {m \in ClientMessages :
        /\ "bytes" \in DOMAIN m => m.bytes \in {<<>>, <<7>>}
        /\ "text" \in DOMAIN m => m.text \in {END_OF_STREAM, CfgWav, NotJson}}

\* what the history keeps of a received message
MessageKind(data) ==
    IF "bytes" \in DOMAIN data THEN "bytes"
    ELSE IF "text" \in DOMAIN data
         THEN (IF data.text = END_OF_STREAM THEN END_OF_STREAM ELSE "text")
    ELSE data.type

\* json.loads on the text frames above; ok = FALSE when it raises
JsonLoads(t) ==
    CASE t = CfgWav    -> [ok |-> TRUE, isdict |-> TRUE, type |-> "config",
                           audio_mime_type |-> "audio/wav"]
      [] t = CfgMp4    -> [ok |-> TRUE, isdict |-> TRUE, type |-> "config",
                           audio_mime_type |-> "audio/mp4"]
      [] t = CfgNoMime -> [ok |-> TRUE, isdict |-> TRUE, type |-> "config",
                           audio_mime_type |-> NoneStr]
      [] t = JsonPing  -> [ok |-> TRUE, isdict |-> TRUE, type |-> "ping",
                           audio_mime_type |-> "audio/ogg"]
      [] OTHER         -> [ok |-> FALSE, isdict |-> FALSE, type |-> NoneStr,
                           audio_mime_type |-> NoneStr]

\* x or y on optional strings (None and "" are falsy)
StrOr(x, y) == IF x # NoneStr /\ x # "" THEN x ELSE y

\* parts of a provider chunk
NoBlob == [present |-> FALSE, mime_type |-> "", data |-> <<>>]
TextPart(t) == [text |-> t, inline_data |-> NoBlob]
BlobPart(m, d) ==
    [text |-> <<>>, inline_data |-> [present |-> TRUE, mime_type |-> m, data |-> d]]

MarkerLine == IMAGE_PROMPT_MARKER \o <<" ", "c">>

\* chunks the text model may stream
ProviderChunks ==
    { [parts |-> <<>>, text |-> <<"a">>],
      [parts |-> <<>>, text |-> <<>>],
      [parts |-> <<TextPart(<<"\n">> \o MarkerLine)>>, text |-> <<"\n">> \o MarkerLine],
      [parts |-> <<TextPart(<<"b">>), TextPart(<<>>), BlobPart("", <<255, 1>>)>>,
       text |-> <<"b">>] }

\* increments of an answer that carries IMAGE_PROMPT lines: the marker split
\* over two increments, in lower case with a colon in its prompt, and
\* without a prompt
AnswerTexts ==
    { <<"x">>, <<>>,
      <<"I","M","A","G","E","_">>,
      <<"P","R","O","M","P","T",":"," ","c","\n">>,
      <<" ","i","m","a","g","e","_","p","r","o","m","p","t",":"," ","d",":","e"," ","\n">>,
      IMAGE_PROMPT_MARKER \o <<" ", "\n">> }

AnswerChunks == {[parts |-> <<>>, text |-> t] : t \in AnswerTexts}

\* a client that sends one audio frame
AudioThenEnd ==
    {m \in ClientMessages :
        /\ "bytes" \in DOMAIN m => m.bytes = <<7>>
        /\ "text" \in DOMAIN m => m.text = END_OF_STREAM
        /\ m.type = "websocket.receive"}

\* responses of the image model
ImageResponses ==
    { [parts |-> <<BlobPart("image/webp", <<3>>), BlobPart("image/png", <<4>>)>>,
       candidates |-> <<>>],
      [parts |-> <<>>, candidates |-> << <<TextPart(<<"t">>), BlobPart("", <<>>)>> >>],
      [parts |-> <<>>, candidates |-> <<>>],
      [parts |-> <<TextPart(<<"t">>)>>, candidates |-> <<>>] }

\* ------------------------------------------------------------ common steps
SCREENSHOT_PNG == "screenshot.png"
GENERATED_IMAGE_PNG == "generated_image.png"
TEMP_SCREENSHOT_PNG == "temp_screenshot.png"
SCREENSHOT_TEMP_PNG == "screenshot_temp.png"

Paths == {SCREENSHOT_PNG, GENERATED_IMAGE_PNG, TEMP_SCREENSHOT_PNG, SCREENSHOT_TEMP_PNG}

\* one external call in the history: what, its argument, its outcome and the
\* position of the handler making it
Ev(c, ev, a, out) == [ev |-> ev, a |-> a, out |-> out, at |-> pc[c]]

\* a step of connection c: new position, new locals, new events, new files
Do(c, p, l, es, f) ==
    /\ pc' = [pc EXCEPT ![c] = p]
    /\ loc' = [loc EXCEPT ![c] = l]
    /\ log' = [log EXCEPT ![c] = @ \o es]
    /\ fs' = f
    /\ UNCHANGED <<handler, env>>

\* messages of the JSON framing
TextMsg(t) == [type |-> "text", data |-> t]
\* the image message without the default mime type
ImageMsg_NoDefault(blob) ==
    [type |-> "image", mime_type |-> blob.mime_type, data |-> B64Encode(blob.data)]

ImageMsg(blob) ==
    [type |-> "image", mime_type |-> StrOr(blob.mime_type, "image/png"),
     data |-> B64Encode(blob.data)]
ErrorMsg(d) == [type |-> "error", data |-> d]

\* websocket.send_text(json.dumps(m)) / websocket.send_json(m): one text frame
\* holding the JSON object m
JsonFrame(m) == [frame |-> "text", json |-> m]

\* ===================================================== backend/main.py
DISABLE_SCREENSHOT == env.DISABLE_SCREENSHOT

PROMPT == "You are a multi-modal assistant. Analyze the user's audio and the screenshot. ..."

AS == "audio_stream"

AudioStreamLocals ==
    [audio_buffer |-> <<>>, audio_mime_type |-> NoneStr, img |-> 0,
     collected_text |-> <<>>, parts |-> <<>>, chunk_text |-> <<>>,
     image_part |-> NoBlob, exc |-> NoneStr, nrecv |-> 0, nchunks |-> 0]

\* no except clause: every exception goes straight to the finally clause
AS_Handler_NoReport(x) == "finally"

\* the except clause an exception raised in the try body reaches
AS_Handler(x) ==
    IF x = "WebSocketDisconnect" THEN "except_disconnect" ELSE "except_exception"

\* line 65
AS_Accept(c) ==
    /\ handler[c] = AS /\ pc[c] = "start"
    /\ \E o \in CallOutcomes :
         Do(c, IF o = "ok" THEN "receive" ELSE "raised", loc[c],
            <<Ev(c, "accept", NoneStr, o)>>, fs)

\* every JSON object is taken for a config message
AS_OnMessage_AnyObject(l, data) ==
    IF "bytes" \in DOMAIN data
    THEN [l EXCEPT !.audio_buffer = @ \o data.bytes]
    ELSE IF "text" \in DOMAIN data /\ data.text # END_OF_STREAM
    THEN LET obj == JsonLoads(data.text) IN
         IF obj.ok /\ obj.isdict
         THEN [l EXCEPT !.audio_mime_type = StrOr(obj.audio_mime_type, @)]
         ELSE l
    ELSE l

\* each binary frame replaces the buffer
AS_OnMessage_LastFrame(l, data) ==
    IF "bytes" \in DOMAIN data
    THEN [l EXCEPT !.audio_buffer = data.bytes]
    ELSE IF "text" \in DOMAIN data /\ data.text # END_OF_STREAM
    THEN LET obj == JsonLoads(data.text) IN
         IF obj.ok /\ obj.isdict /\ obj.type = "config"
         THEN [l EXCEPT !.audio_mime_type = StrOr(obj.audio_mime_type, @)]
         ELSE l
    ELSE l

\* the effect of one received message on the locals (lines 75-90)
AS_OnMessage(l, data) ==
    IF "bytes" \in DOMAIN data
    THEN [l EXCEPT !.audio_buffer = @ \o data.bytes]
    ELSE IF "text" \in DOMAIN data /\ data.text # END_OF_STREAM
    THEN LET obj == JsonLoads(data.text) IN
         IF obj.ok /\ obj.isdict /\ obj.type = "config"
         THEN [l EXCEPT !.audio_mime_type = StrOr(obj.audio_mime_type, @)]
         ELSE l
    ELSE l

\* the event of a message websocket.receive() returned, with the message
Received(c, data) ==
    [ev |-> "receive", a |-> MessageKind(data), out |-> "ok", at |-> pc[c],
     data |-> data]

\* lines 73-90: one iteration of the receive loop, for a client that sends
\* at most n of the messages msgs before END_OF_STREAM
AS_ReceiveFrom(c, msgs, n) ==
    /\ handler[c] = AS /\ pc[c] = "receive"
    /\ \/ \E data \in msgs :
            /\ ("text" \in DOMAIN data /\ data.text = END_OF_STREAM)
               \/ loc[c].nrecv < n
            /\ Do(c,
                  IF "bytes" \notin DOMAIN data /\ "text" \in DOMAIN data
                     /\ data.text = END_OF_STREAM
                  THEN "after_loop" ELSE "receive",
                  [AS_OnMessage(loc[c], data) EXCEPT !.nrecv = @ + 1],
                  <<Received(c, data)>>, fs)
       \/ \E x \in WsOutcomes \ {"ok"} :
            Do(c, AS_Handler(x), [loc[c] EXCEPT !.exc = x],
               <<Ev(c, "receive", NoneStr, x)>>, fs)

AS_Receive(c) == AS_ReceiveFrom(c, StreamMessages, MaxRecv)

\* the error is sent and the handler goes on without returning
AS_NoAudio_NoReturn(c) ==
    /\ handler[c] = AS /\ pc[c] = "after_loop"
    /\ loc[c].audio_buffer = <<>>
    /\ \E o \in WsOutcomes :
         Do(c, IF o = "ok" THEN "call" ELSE AS_Handler(o),
            [loc[c] EXCEPT !.exc = IF o = "ok" THEN @ ELSE o],
            <<Ev(c, "send", JsonFrame(ErrorMsg(<<"No audio data received.">>)), o)>>,
            fs)

\* lines 92-96: nothing was recorded
AS_NoAudio(c) ==
    /\ handler[c] = AS /\ pc[c] = "after_loop"
    /\ loc[c].audio_buffer = <<>>
    /\ \E o \in WsOutcomes :
         Do(c, IF o = "ok" THEN "finally" ELSE AS_Handler(o),
            [loc[c] EXCEPT !.exc = IF o = "ok" THEN @ ELSE o],
            <<Ev(c, "send", JsonFrame(ErrorMsg(<<"No audio data received.">>)), o)>>,
            fs)

\* the event of take_screenshot(), with whether the file was written
Captured(c, path, shot) ==
    [ev |-> "capture", a |-> path, out |-> shot.out, at |-> pc[c],
     wrote |-> shot.file]

\* the capture outside a try block: its exception aborts the request
AS_Screenshot_Unguarded(c) ==
    /\ handler[c] = AS /\ pc[c] = "after_loop"
    /\ loc[c].audio_buffer # <<>>
    /\ ~DISABLE_SCREENSHOT
    /\ \E shot \in ShotOutcomes, open \in FileOutcomes :
         LET f == IF shot.file THEN [fs EXCEPT ![SCREENSHOT_PNG] = c] ELSE fs
             exists == f[SCREENSHOT_PNG] # 0
             opened == shot.out = "ok" /\ exists /\ open = "ok"
         IN  Do(c, IF shot.out = "ok" THEN "call" ELSE AS_Handler(shot.out),
                [loc[c] EXCEPT !.img = IF opened THEN f[SCREENSHOT_PNG] ELSE 0,
                               !.exc = IF shot.out = "ok" THEN @ ELSE shot.out],
                <<Captured(c, SCREENSHOT_PNG, shot)>>
                \o (IF shot.out = "ok" /\ exists
                    THEN <<Ev(c, "open", SCREENSHOT_PNG, open)>> ELSE <<>>),
                f)

\* the capture made whatever the switch says
AS_Screenshot_Always(c) ==
    /\ handler[c] = AS /\ pc[c] = "after_loop"
    /\ loc[c].audio_buffer # <<>>
    /\ \E shot \in ShotOutcomes, open \in FileOutcomes :
         LET f == IF shot.file THEN [fs EXCEPT ![SCREENSHOT_PNG] = c] ELSE fs
             exists == f[SCREENSHOT_PNG] # 0
             opened == shot.out = "ok" /\ exists /\ open = "ok"
         IN  Do(c, "call",
                [loc[c] EXCEPT !.img = IF opened THEN f[SCREENSHOT_PNG] ELSE 0],
                <<Captured(c, SCREENSHOT_PNG, shot)>>
                \o (IF shot.out = "ok" /\ exists
                    THEN <<Ev(c, "open", SCREENSHOT_PNG, open)>> ELSE <<>>),
                f)

\* lines 99-109 with DISABLE_SCREENSHOT false: take_screenshot() and
\* Image.open; every failure leaves img = None
AS_Screenshot(c) ==
    /\ handler[c] = AS /\ pc[c] = "after_loop"
    /\ loc[c].audio_buffer # <<>>
    /\ ~DISABLE_SCREENSHOT
    /\ \E shot \in ShotOutcomes, open \in FileOutcomes :
         LET f == IF shot.file THEN [fs EXCEPT ![SCREENSHOT_PNG] = c] ELSE fs
             exists == f[SCREENSHOT_PNG] # 0
             opened == shot.out = "ok" /\ exists /\ open = "ok"
         IN  Do(c, "call",
                [loc[c] EXCEPT !.img = IF opened THEN f[SCREENSHOT_PNG] ELSE 0],
                <<Captured(c, SCREENSHOT_PNG, shot)>>
                \o (IF shot.out = "ok" /\ exists
                    THEN <<Ev(c, "open", SCREENSHOT_PNG, open)>> ELSE <<>>),
                f)

\* the capture skipped whatever the switch says
AS_SkipScreenshot_Always(c) ==
    /\ handler[c] = AS /\ pc[c] = "after_loop"
    /\ loc[c].audio_buffer # <<>>
    /\ Do(c, "call", [loc[c] EXCEPT !.img = 0], <<>>, fs)

\* lines 99-100 with DISABLE_SCREENSHOT true
AS_SkipScreenshot(c) ==
    /\ handler[c] = AS /\ pc[c] = "after_loop"
    /\ loc[c].audio_buffer # <<>>
    /\ DISABLE_SCREENSHOT
    /\ Do(c, "call", [loc[c] EXCEPT !.img = 0], <<>>, fs)

\* lines 113-123: what is handed to the text model
AS_Parts(l) ==
    <<[kind |-> "text", text |-> PROMPT],
      [kind |-> "audio", mime_type |-> StrOr(l.audio_mime_type, "audio/webm"),
       data |-> l.audio_buffer]>>
    \o (IF l.img # 0 THEN <<[kind |-> "image", img |-> l.img]>> ELSE <<>>)

\* line 124
AS_CallProvider(c) ==
    /\ handler[c] = AS /\ pc[c] = "call"
    /\ \E o \in ProviderOutcomes :
         Do(c, IF o = "ok" THEN "stream" ELSE AS_Handler(o),
            [loc[c] EXCEPT !.exc = IF o = "ok" THEN @ ELSE o],
            <<Ev(c, "generate_content", AS_Parts(loc[c]), o)>>, fs)

\* only the latest increment is kept for the detection
AS_ProcessText_PerIncrement(l, text) ==
    IF text = <<>> THEN l ELSE [l EXCEPT !.collected_text = text]

\* lines 129-135: process_text; the text is collected before it is sent
AS_ProcessText(l, text) ==
    IF text = <<>> THEN l ELSE [l EXCEPT !.collected_text = @ \o text]

\* everything collected so far is sent instead of the increment
AS_ProcessTextSends_Collected(c, text, o) ==
    IF text = <<>> THEN <<>>
    ELSE <<Ev(c, "send", JsonFrame(TextMsg(loc[c].collected_text \o text)), o)>>

AS_ProcessTextSends(c, text, o) ==
    IF text = <<>> THEN <<>> ELSE <<Ev(c, "send", JsonFrame(TextMsg(text)), o)>>

\* lines 137-147: the next chunk of the stream, its end, or its failure, for
\* an answer of at most n of the chunks given
AS_NextChunkFrom(c, chunks, n) ==
    /\ handler[c] = AS /\ pc[c] = "stream"
    /\ \/ \E chunk \in chunks :
            /\ loc[c].nchunks < n
            /\ Do(c,
                  IF chunk.parts = <<>> /\ chunk.text # <<>> THEN "chunk_text"
                  ELSE IF chunk.parts = <<>> THEN "stream" ELSE "parts",
                  [loc[c] EXCEPT !.nchunks = @ + 1, !.parts = chunk.parts,
                                 !.chunk_text = chunk.text],
                  <<Ev(c, "chunk", chunk, "ok")>>, fs)
       \/ Do(c, "followup", loc[c], <<Ev(c, "chunk", NoneStr, "StopIteration")>>, fs)
       \/ \E x \in ProviderOutcomes \ {"ok"} :
            Do(c, AS_Handler(x), [loc[c] EXCEPT !.exc = x],
               <<Ev(c, "chunk", NoneStr, x)>>, fs)

AS_NextChunk(c) == AS_NextChunkFrom(c, ProviderChunks, MaxChunks)

\* lines 142-144: a chunk without parts carrying text
AS_ChunkText(c) ==
    /\ handler[c] = AS /\ pc[c] = "chunk_text"
    /\ \E o \in WsOutcomes :
         Do(c, IF o = "ok" THEN "stream" ELSE AS_Handler(o),
            [AS_ProcessText(loc[c], loc[c].chunk_text)
                EXCEPT !.exc = IF o = "ok" THEN @ ELSE o],
            AS_ProcessTextSends(c, loc[c].chunk_text, o), fs)

\* lines 150-166: one part of the current chunk
AS_Part(c) ==
    /\ handler[c] = AS /\ pc[c] = "parts"
    /\ LET part == Head(loc[c].parts)
           rest == [loc[c] EXCEPT !.parts = Tail(@)]
           next == IF Tail(loc[c].parts) = <<>> THEN "stream" ELSE "parts"
       IN  \/ /\ part.text # <<>>
              /\ \E o \in WsOutcomes :
                   Do(c, IF o = "ok" THEN next ELSE AS_Handler(o),
                      [AS_ProcessText(rest, part.text)
                          EXCEPT !.exc = IF o = "ok" THEN @ ELSE o],
                      AS_ProcessTextSends(c, part.text, o), fs)
           \/ /\ part.text = <<>> /\ part.inline_data.present
              /\ \E w \in FileOutcomes, o \in WsOutcomes :
                   IF w # "ok"
                   THEN Do(c, AS_Handler(w), [rest EXCEPT !.exc = w],
                           <<Ev(c, "write", GENERATED_IMAGE_PNG, w)>>, fs)
                   ELSE Do(c, IF o = "ok" THEN next ELSE AS_Handler(o),
                           [rest EXCEPT !.exc = IF o = "ok" THEN @ ELSE o],
                           <<Ev(c, "write", GENERATED_IMAGE_PNG, w),
                             Ev(c, "send", JsonFrame(ImageMsg(part.inline_data)), o)>>,
                           [fs EXCEPT ![GENERATED_IMAGE_PNG] = c])
           \/ /\ part.text = <<>> /\ ~part.inline_data.present
              /\ Do(c, next, rest, <<>>, fs)

\* lines 171-176 when no IMAGE_PROMPT line carries a prompt
AS_NoFollowUp(c) ==
    /\ handler[c] = AS /\ pc[c] = "followup"
    /\ ImagePromptOf(loc[c].collected_text) = <<>>
    /\ Do(c, "finally", loc[c], <<>>, fs)

\* lines 179-186: the parts of the image response that is searched
AS_ImageParts(r) ==
    IF r.parts # <<>> THEN r.parts
    ELSE IF r.candidates # <<>> THEN r.candidates[1] ELSE <<>>

\* the event of a call of the image model that returned, with its response
ImageCalled(c, image_prompt, r) ==
    [ev |-> "generate_image", a |-> image_prompt, out |-> "ok", at |-> pc[c],
     response |-> r]

\* the call outside the inner try block: its exception is reported
AS_ImageCall_Unguarded(c) ==
    /\ handler[c] = AS /\ pc[c] = "followup"
    /\ LET image_prompt == ImagePromptOf(loc[c].collected_text) IN
       /\ image_prompt # <<>>
       /\ \/ \E r \in ImageResponses :
               LET inline == SelectSeq(AS_ImageParts(r),
                                       LAMBDA p : p.inline_data.present)
               IN  Do(c, IF inline # <<>> THEN "image_send" ELSE "finally",
                      [loc[c] EXCEPT !.image_part =
                          IF inline # <<>> THEN inline[1].inline_data ELSE @],
                      <<ImageCalled(c, image_prompt, r)>>, fs)
          \/ \E x \in ProviderOutcomes \ {"ok"} :
               Do(c, AS_Handler(x), [loc[c] EXCEPT !.exc = x],
                  <<Ev(c, "generate_image", image_prompt, x)>>, fs)

\* lines 176-187, 199-202: the image model is asked; every failure is contained
AS_ImageCall(c) ==
    /\ handler[c] = AS /\ pc[c] = "followup"
    /\ LET image_prompt == ImagePromptOf(loc[c].collected_text) IN
       /\ image_prompt # <<>>
       /\ \/ \E r \in ImageResponses :
               LET inline == SelectSeq(AS_ImageParts(r),
                                       LAMBDA p : p.inline_data.present)
               IN  Do(c, IF inline # <<>> THEN "image_send" ELSE "finally",
                      [loc[c] EXCEPT !.image_part =
                          IF inline # <<>> THEN inline[1].inline_data ELSE @],
                      <<ImageCalled(c, image_prompt, r)>>, fs)
          \/ \E x \in ProviderOutcomes \ {"ok"} :
               Do(c, "finally", loc[c],
                  <<Ev(c, "generate_image", image_prompt, x)>>, fs)

\* lines 187-198, 201-202: the first part with inline data is saved and sent
AS_ImageSend(c) ==
    /\ handler[c] = AS /\ pc[c] = "image_send"
    /\ \E w \in FileOutcomes, o \in CallOutcomes :
         IF w # "ok"
         THEN Do(c, "finally", loc[c],
                 <<Ev(c, "write", GENERATED_IMAGE_PNG, w)>>, fs)
         ELSE Do(c, "finally", loc[c],
                 <<Ev(c, "write", GENERATED_IMAGE_PNG, w),
                   Ev(c, "send", JsonFrame(ImageMsg(loc[c].image_part)), o)>>,
                 [fs EXCEPT ![GENERATED_IMAGE_PNG] = c])

\* lines 204-205
AS_ExceptDisconnect(c) ==
    /\ handler[c] = AS /\ pc[c] = "except_disconnect"
    /\ Do(c, "finally", loc[c], <<>>, fs)

\* lines 206-213: the error is reported; a failing report is swallowed
AS_ExceptException(c) ==
    /\ handler[c] = AS /\ pc[c] = "except_exception"
    /\ \E o \in CallOutcomes :
         Do(c, "finally", loc[c],
            <<Ev(c, "send",
                 JsonFrame(ErrorMsg(<<"A backend error occurred. Check server logs. Type: ",
                                      loc[c].exc>>)), o)>>,
            fs)

\* the finally clause without the removal
AS_Finally_NoRemove(c) ==
    /\ handler[c] = AS /\ pc[c] = "finally"
    /\ \E o \in CallOutcomes :
         Do(c, IF o = "ok" THEN "done" ELSE "raised", loc[c],
            <<Ev(c, "close", NoneStr, o)>>, fs)

\* the finally clause with the removal outside a try: its failure skips close()
AS_Finally_RemoveUnguarded(c) ==
    /\ handler[c] = AS /\ pc[c] = "finally"
    /\ \E r \in FileOutcomes, o \in CallOutcomes :
         /\ fs[SCREENSHOT_PNG] = 0 => r = "ok"
         /\ Do(c, IF o = "ok" /\ r = "ok" THEN "done" ELSE "raised", loc[c],
               (IF fs[SCREENSHOT_PNG] # 0
                THEN <<Ev(c, "remove", SCREENSHOT_PNG, r)>> ELSE <<>>)
               \o (IF r = "ok" THEN <<Ev(c, "close", NoneStr, o)>> ELSE <<>>),
               IF fs[SCREENSHOT_PNG] # 0 /\ r = "ok"
               THEN [fs EXCEPT ![SCREENSHOT_PNG] = 0] ELSE fs)

\* lines 214-222: best-effort removal of the screenshot, then close()
AS_Finally(c) ==
    /\ handler[c] = AS /\ pc[c] = "finally"
    /\ \E r \in FileOutcomes, o \in CallOutcomes :
         /\ fs[SCREENSHOT_PNG] = 0 => r = "ok"
         /\ Do(c, IF o = "ok" THEN "done" ELSE "raised", loc[c],
               (IF fs[SCREENSHOT_PNG] # 0
                THEN <<Ev(c, "remove", SCREENSHOT_PNG, r)>> ELSE <<>>)
               \o <<Ev(c, "close", NoneStr, o)>>,
               IF fs[SCREENSHOT_PNG] # 0 /\ r = "ok"
               THEN [fs EXCEPT ![SCREENSHOT_PNG] = 0] ELSE fs)

audio_stream(c) ==
    \/ AS_Accept(c) \/ AS_Receive(c) \/ AS_NoAudio(c)
    \/ AS_Screenshot(c) \/ AS_SkipScreenshot(c) \/ AS_CallProvider(c)
    \/ AS_NextChunk(c) \/ AS_ChunkText(c) \/ AS_Part(c)
    \/ AS_NoFollowUp(c) \/ AS_ImageCall(c) \/ AS_ImageSend(c)
    \/ AS_ExceptDisconnect(c) \/ AS_ExceptException(c)
    \/ AS_Finally(c)

\* ============================== steps the voice handlers have in common
\* with mss.mss() as sct: sct.shot(output=path), then Image.open(path).
\* exc is the exception that leaves the two statements, or "ok".
CaptureAndOpen(c, path, shot, open) ==
    LET f == IF shot.file THEN [fs EXCEPT ![path] = c] ELSE fs
        o == IF f[path] = 0 THEN "FileNotFoundError" ELSE open
    IN  IF shot.out # "ok"
        THEN [fs |-> f, exc |-> shot.out, img |-> 0,
              es |-> <<Ev(c, "capture", path, shot.out)>>]
        ELSE [fs |-> f, exc |-> o, img |-> IF o = "ok" THEN f[path] ELSE 0,
              es |-> <<Ev(c, "capture", path, "ok"), Ev(c, "open", path, o)>>]

\* model.generate_content([question, img]) of the voice handlers
VoiceParts(question, img) ==
    <<[kind |-> "text", text |-> question], [kind |-> "image", img |-> img]>>

\* chunk.text of the chunks the model streams to the voice handlers
VoiceChunkTexts == {<<>>, <<"a">>, <<"b">>}

\* ======================================= backend/pipecat_simple_endpoint.py
PV == "pipecat_voice_endpoint"

PV_TRANSCRIPT == "What can you see on my screen?"

PipecatVoiceLocals ==
    [audio_chunk |-> <<>>, transcript |-> "", img |-> 0, exc |-> NoneStr,
     nrecv |-> 0, nchunks |-> 0]

\* the except clause an exception raised in the try body reaches (124-128)
PV_Handler(x) ==
    IF x = "WebSocketDisconnect" THEN "except_disconnect" ELSE "except_exception"

\* line 39
PV_Accept(c) ==
    /\ handler[c] = PV /\ pc[c] = "start"
    /\ \E o \in CallOutcomes :
         Do(c, IF o = "ok" THEN "keys" ELSE "raised", loc[c],
            <<Ev(c, "accept", NoneStr, o)>>, fs)

\* the Gemini key checked before the Deepgram key
PV_MissingKey_GeminiFirst(c) ==
    /\ handler[c] = PV /\ pc[c] = "keys"
    /\ ~env.DEEPGRAM_API_KEY \/ ~env.GEMINI_API_KEY
    /\ LET m == IF ~env.GEMINI_API_KEY
                THEN ErrorMsg(<<"GEMINI_API_KEY not set">>)
                ELSE ErrorMsg(<<"DEEPGRAM_API_KEY not set. Get one at https://deepgram.com">>)
       IN \E o \in CallOutcomes, k \in CallOutcomes :
            IF o # "ok"
            THEN Do(c, "raised", loc[c], <<Ev(c, "send", JsonFrame(m), o)>>, fs)
            ELSE Do(c, IF k = "ok" THEN "done" ELSE "raised", loc[c],
                    <<Ev(c, "send", JsonFrame(m), o), Ev(c, "close", NoneStr, k)>>, fs)

\* lines 45-59: a missing key is reported and the connection closed
PV_MissingKey(c) ==
    /\ handler[c] = PV /\ pc[c] = "keys"
    /\ ~env.DEEPGRAM_API_KEY \/ ~env.GEMINI_API_KEY
    /\ LET m == IF ~env.DEEPGRAM_API_KEY
                THEN ErrorMsg(<<"DEEPGRAM_API_KEY not set. Get one at https://deepgram.com">>)
                ELSE ErrorMsg(<<"GEMINI_API_KEY not set">>)
       IN \E o \in CallOutcomes, k \in CallOutcomes :
            IF o # "ok"
            THEN Do(c, "raised", loc[c], <<Ev(c, "send", JsonFrame(m), o)>>, fs)
            ELSE Do(c, IF k = "ok" THEN "done" ELSE "raised", loc[c],
                    <<Ev(c, "send", JsonFrame(m), o), Ev(c, "close", NoneStr, k)>>, fs)

\* lines 62-76: the services are set up outside the try
PV_Setup(c) ==
    /\ handler[c] = PV /\ pc[c] = "keys"
    /\ env.DEEPGRAM_API_KEY /\ env.GEMINI_API_KEY
    /\ \E o \in CallOutcomes :
         Do(c, IF o = "ok" THEN "receive" ELSE "raised", loc[c],
            <<Ev(c, "setup", NoneStr, o)>>, fs)

\* the receive loop with the recording used as the question
PV_Receive_Transcribing(c) ==
    /\ handler[c] = PV /\ pc[c] = "receive"
    /\ \/ \E data \in ClientMessages :
            LET eos == "bytes" \notin DOMAIN data /\ "text" \in DOMAIN data
                       /\ data.text = END_OF_STREAM
            IN  /\ eos \/ loc[c].nrecv < MaxRecv
                /\ Do(c, IF eos THEN "status" ELSE "receive",
                      [loc[c] EXCEPT !.nrecv = @ + 1,
                          !.audio_chunk = IF "bytes" \in DOMAIN data
                                          THEN data.bytes ELSE @,
                          !.transcript = IF eos /\ loc[c].audio_chunk = <<>>
                                         THEN PV_TRANSCRIPT
                                         ELSE IF eos THEN "transcribed" ELSE @],
                      <<Ev(c, "receive", MessageKind(data), "ok")>>, fs)
       \/ \E x \in WsOutcomes \ {"ok"} :
            Do(c, PV_Handler(x), [loc[c] EXCEPT !.exc = x],
               <<Ev(c, "receive", NoneStr, x)>>, fs)

\* lines 79-92: one iteration of the receive loop
PV_Receive(c) ==
    /\ handler[c] = PV /\ pc[c] = "receive"
    /\ \/ \E data \in ClientMessages :
            LET eos == "bytes" \notin DOMAIN data /\ "text" \in DOMAIN data
                       /\ data.text = END_OF_STREAM
            IN  /\ eos \/ loc[c].nrecv < MaxRecv
                /\ Do(c, IF eos THEN "status" ELSE "receive",
                      [loc[c] EXCEPT !.nrecv = @ + 1,
                          !.audio_chunk = IF "bytes" \in DOMAIN data
                                          THEN data.bytes ELSE @,
                          !.transcript = IF eos THEN PV_TRANSCRIPT ELSE @],
                      <<Ev(c, "receive", MessageKind(data), "ok")>>, fs)
       \/ \E x \in WsOutcomes \ {"ok"} :
            Do(c, PV_Handler(x), [loc[c] EXCEPT !.exc = x],
               <<Ev(c, "receive", NoneStr, x)>>, fs)

\* lines 95-98: the status update
PV_Status(c) ==
    /\ handler[c] = PV /\ pc[c] = "status"
    /\ \E o \in WsOutcomes :
         Do(c, IF o = "ok" THEN "capture" ELSE PV_Handler(o),
            [loc[c] EXCEPT !.exc = IF o = "ok" THEN @ ELSE o],
            <<Ev(c, "send",
                 JsonFrame(TextMsg(<<"You said: ", loc[c].transcript,
                                     " Analyzing screenshot...">>)), o)>>, fs)

\* lines 101-106
PV_Capture(c) ==
    /\ handler[c] = PV /\ pc[c] = "capture"
    /\ \E shot \in ShotOutcomes, open \in FileOutcomes :
         LET r == CaptureAndOpen(c, TEMP_SCREENSHOT_PNG, shot, open)
         IN  Do(c, IF r.exc = "ok" THEN "call" ELSE PV_Handler(r.exc),
                [loc[c] EXCEPT !.img = r.img,
                               !.exc = IF r.exc = "ok" THEN @ ELSE r.exc],
                r.es, r.fs)

\* line 107
PV_Call(c) ==
    /\ handler[c] = PV /\ pc[c] = "call"
    /\ \E o \in ProviderOutcomes :
         Do(c, IF o = "ok" THEN "stream" ELSE PV_Handler(o),
            [loc[c] EXCEPT !.exc = IF o = "ok" THEN @ ELSE o],
            <<Ev(c, "generate_content",
                 VoiceParts(loc[c].transcript, loc[c].img), o)>>, fs)

\* lines 110-116: the next chunk is relayed when it has text
PV_Chunk(c) ==
    /\ handler[c] = PV /\ pc[c] = "stream"
    /\ \/ \E text \in VoiceChunkTexts, o \in WsOutcomes :
            /\ loc[c].nchunks < MaxChunks
            /\ text = <<>> => o = "ok"
            /\ Do(c, IF o = "ok" THEN "stream" ELSE PV_Handler(o),
                  [loc[c] EXCEPT !.nchunks = @ + 1,
                                 !.exc = IF o = "ok" THEN @ ELSE o],
                  <<Ev(c, "chunk", text, "ok")>>
                  \o (IF text # <<>>
                      THEN <<Ev(c, "send", JsonFrame(TextMsg(text)), o)>>
                      ELSE <<>>), fs)
       \/ Do(c, "cleanup", loc[c], <<Ev(c, "chunk", NoneStr, "StopIteration")>>, fs)
       \/ \E x \in ProviderOutcomes \ {"ok"} :
            Do(c, PV_Handler(x), [loc[c] EXCEPT !.exc = x],
               <<Ev(c, "chunk", NoneStr, x)>>, fs)

\* lines 119-122, 129-131: the screenshot is removed on the normal path only
PV_Cleanup(c) ==
    /\ handler[c] = PV /\ pc[c] = "cleanup"
    /\ \E r \in FileOutcomes :
         /\ fs[TEMP_SCREENSHOT_PNG] = 0 => r = "ok"
         /\ Do(c, IF r = "ok" THEN "done" ELSE PV_Handler(r),
               [loc[c] EXCEPT !.exc = IF r = "ok" THEN @ ELSE r],
               IF fs[TEMP_SCREENSHOT_PNG] # 0
               THEN <<Ev(c, "remove", TEMP_SCREENSHOT_PNG, r)>> ELSE <<>>,
               IF r = "ok" THEN [fs EXCEPT ![TEMP_SCREENSHOT_PNG] = 0] ELSE fs)

\* lines 124-125, 129-131
PV_ExceptDisconnect(c) ==
    /\ handler[c] = PV /\ pc[c] = "except_disconnect"
    /\ Do(c, "done", loc[c], <<>>, fs)

\* lines 126-131: the error is reported; the finally clause does nothing
PV_ExceptException(c) ==
    /\ handler[c] = PV /\ pc[c] = "except_exception"
    /\ \E o \in CallOutcomes :
         Do(c, IF o = "ok" THEN "done" ELSE "raised", loc[c],
            <<Ev(c, "send", JsonFrame(ErrorMsg(<<loc[c].exc>>)), o)>>, fs)

pipecat_voice_endpoint(c) ==
    \/ PV_Accept(c) \/ PV_MissingKey(c) \/ PV_Setup(c) \/ PV_Receive(c)
    \/ PV_Status(c) \/ PV_Capture(c) \/ PV_Call(c) \/ PV_Chunk(c)
    \/ PV_Cleanup(c) \/ PV_ExceptDisconnect(c) \/ PV_ExceptException(c)

US == "ultra_simple_voice_endpoint"

\* transcripts the Deepgram request may return
Transcripts == {<<"q">>, <<>>}

UltraSimpleLocals ==
    [audio_buffer |-> <<>>, transcript |-> <<>>, img |-> 0, exc |-> NoneStr,
     nrecv |-> 0, nchunks |-> 0]

\* line 164
US_Accept(c) ==
    /\ handler[c] = US /\ pc[c] = "start"
    /\ \E o \in CallOutcomes :
         Do(c, IF o = "ok" THEN "receive" ELSE "raised", loc[c],
            <<Ev(c, "accept", NoneStr, o)>>, fs)

\* lines 172-178: one iteration of the receive loop
US_Receive(c) ==
    /\ handler[c] = US /\ pc[c] = "receive"
    /\ \/ \E data \in ClientMessages :
            LET eos == "bytes" \notin DOMAIN data /\ "text" \in DOMAIN data
                       /\ data.text = END_OF_STREAM
            IN  /\ eos \/ loc[c].nrecv < MaxRecv
                /\ Do(c, IF eos THEN "transcribe" ELSE "receive",
                      [loc[c] EXCEPT !.nrecv = @ + 1,
                          !.audio_buffer = IF "bytes" \in DOMAIN data
                                           THEN @ \o data.bytes ELSE @],
                      <<Ev(c, "receive", MessageKind(data), "ok")>>, fs)
       \/ \E x \in WsOutcomes \ {"ok"} :
            Do(c, "except", [loc[c] EXCEPT !.exc = x],
               <<Ev(c, "receive", NoneStr, x)>>, fs)

\* lines 180-190: the recording is transcribed by the speech service
US_Transcribe(c) ==
    /\ handler[c] = US /\ pc[c] = "transcribe"
    /\ \/ \E t \in Transcripts :
            Do(c, "capture", [loc[c] EXCEPT !.transcript = t],
               <<Ev(c, "transcribe", loc[c].audio_buffer, "ok")>>, fs)
       \/ \E x \in ProviderOutcomes \ {"ok"} :
            Do(c, "except", [loc[c] EXCEPT !.exc = x],
               <<Ev(c, "transcribe", loc[c].audio_buffer, x)>>, fs)

\* lines 196-200
US_Capture(c) ==
    /\ handler[c] = US /\ pc[c] = "capture"
    /\ \E shot \in ShotOutcomes, open \in FileOutcomes :
         LET r == CaptureAndOpen(c, TEMP_SCREENSHOT_PNG, shot, open)
         IN  Do(c, IF r.exc = "ok" THEN "call" ELSE "except",
                [loc[c] EXCEPT !.img = r.img,
                               !.exc = IF r.exc = "ok" THEN @ ELSE r.exc],
                r.es, r.fs)

\* line 201
US_Call(c) ==
    /\ handler[c] = US /\ pc[c] = "call"
    /\ \E o \in ProviderOutcomes :
         Do(c, IF o = "ok" THEN "stream" ELSE "except",
            [loc[c] EXCEPT !.exc = IF o = "ok" THEN @ ELSE o],
            <<Ev(c, "generate_content",
                 VoiceParts(loc[c].transcript, loc[c].img), o)>>, fs)

\* lines 203-206
US_Chunk(c) ==
    /\ handler[c] = US /\ pc[c] = "stream"
    /\ \/ \E text \in VoiceChunkTexts, o \in WsOutcomes :
            /\ loc[c].nchunks < MaxChunks
            /\ text = <<>> => o = "ok"
            /\ Do(c, IF o = "ok" THEN "stream" ELSE "except",
                  [loc[c] EXCEPT !.nchunks = @ + 1,
                                 !.exc = IF o = "ok" THEN @ ELSE o],
                  <<Ev(c, "chunk", text, "ok")>>
                  \o (IF text # <<>>
                      THEN <<Ev(c, "send", JsonFrame(TextMsg(text)), o)>>
                      ELSE <<>>), fs)
       \/ Do(c, "cleanup", loc[c], <<Ev(c, "chunk", NoneStr, "StopIteration")>>, fs)
       \/ \E x \in ProviderOutcomes \ {"ok"} :
            Do(c, "except", [loc[c] EXCEPT !.exc = x],
               <<Ev(c, "chunk", NoneStr, x)>>, fs)

\* lines 208-211
US_Cleanup(c) ==
    /\ handler[c] = US /\ pc[c] = "cleanup"
    /\ \E r \in FileOutcomes :
         /\ fs[TEMP_SCREENSHOT_PNG] = 0 => r = "ok"
         /\ Do(c, IF r = "ok" THEN "done" ELSE "except",
               [loc[c] EXCEPT !.exc = IF r = "ok" THEN @ ELSE r],
               IF fs[TEMP_SCREENSHOT_PNG] # 0
               THEN <<Ev(c, "remove", TEMP_SCREENSHOT_PNG, r)>> ELSE <<>>,
               IF r = "ok" THEN [fs EXCEPT ![TEMP_SCREENSHOT_PNG] = 0] ELSE fs)

\* lines 213-214
US_Except(c) ==
    /\ handler[c] = US /\ pc[c] = "except"
    /\ \E o \in CallOutcomes :
         Do(c, IF o = "ok" THEN "done" ELSE "raised", loc[c],
            <<Ev(c, "send", JsonFrame(ErrorMsg(<<loc[c].exc>>)), o)>>, fs)

ultra_simple_voice_endpoint(c) ==
    \/ US_Accept(c) \/ US_Receive(c) \/ US_Transcribe(c) \/ US_Capture(c)
    \/ US_Call(c) \/ US_Chunk(c) \/ US_Cleanup(c) \/ US_Except(c)

\* ================================================ backend/simple_pipecat.py
HC == "handle_conversation"

HC_QUESTION == "What do you see on this screen?"

\* str.split(): the maximal runs of non-whitespace characters
RECURSIVE SplitWordsFrom(_, _)
SplitWordsFrom(s, word) ==
    IF s = <<>> THEN (IF word = <<>> THEN <<>> ELSE <<word>>)
    ELSE IF IsSpace(Head(s))
         THEN (IF word = <<>> THEN <<>> ELSE <<word>>) \o SplitWordsFrom(Tail(s), <<>>)
    ELSE SplitWordsFrom(Tail(s), Append(word, Head(s)))

SplitWords(s) == SplitWordsFrom(s, <<>>)

\* response.text of the answers the model may give
ResponseTexts == {<<>>, <<"a">>, <<" ", "a", "\n", "b", "c">>}

HandleConversationLocals ==
    [audio_buffer |-> <<>>, question |-> "", img |-> 0, words |-> <<>>,
     exc |-> NoneStr, nrecv |-> 0]

\* lines 42-46: no speech key is reported; the speech service is set up
HC_CheckKey(c) ==
    /\ handler[c] = HC /\ pc[c] = "start"
    /\ \E o \in CallOutcomes :
         IF ~env.DEEPGRAM_API_KEY
         THEN Do(c, IF o = "ok" THEN "done" ELSE "raised", loc[c],
                 <<Ev(c, "send", JsonFrame(ErrorMsg(<<"Deepgram API key not set">>)), o)>>,
                 fs)
         ELSE Do(c, IF o = "ok" THEN "receive" ELSE "raised", loc[c],
                 <<Ev(c, "setup", NoneStr, o)>>, fs)

\* lines 51-62: one iteration of the receive loop
\* of a client that sends the messages msgs, at most n of them before
\* END_OF_STREAM
HC_ReceiveFrom(c, msgs, n) ==
    /\ handler[c] = HC /\ pc[c] = "receive"
    /\ \/ \E data \in msgs :
            LET isbytes == data.type = "websocket.receive" /\ "bytes" \in DOMAIN data
                eos == data.type = "websocket.receive" /\ ~isbytes
                       /\ "text" \in DOMAIN data /\ data.text = END_OF_STREAM
            IN  /\ eos \/ data.type = "websocket.disconnect" \/ loc[c].nrecv < n
                /\ Do(c, IF data.type = "websocket.disconnect" THEN "done"
                         ELSE IF eos THEN "status" ELSE "receive",
                      [loc[c] EXCEPT !.nrecv = @ + 1,
                          !.audio_buffer = IF isbytes THEN @ \o data.bytes ELSE @],
                      <<Ev(c, "receive", MessageKind(data), "ok")>>, fs)
       \/ \E x \in WsOutcomes \ {"ok"} :
            Do(c, "except", [loc[c] EXCEPT !.exc = x],
               <<Ev(c, "receive", NoneStr, x)>>, fs)

HC_Receive(c) == HC_ReceiveFrom(c, ClientMessages, MaxRecv)

\* line 64
HC_Status(c) ==
    /\ handler[c] = HC /\ pc[c] = "status"
    /\ \E o \in WsOutcomes :
         Do(c, IF o = "ok" THEN "capture" ELSE "except",
            [loc[c] EXCEPT !.exc = IF o = "ok" THEN @ ELSE o],
            <<Ev(c, "send", JsonFrame(TextMsg(<<" Analyzing your screen... ">>)), o)>>,
            fs)

\* lines 71-77
HC_Capture(c) ==
    /\ handler[c] = HC /\ pc[c] = "capture"
    /\ \E shot \in ShotOutcomes, open \in FileOutcomes :
         LET r == CaptureAndOpen(c, TEMP_SCREENSHOT_PNG, shot, open)
         IN  Do(c, IF r.exc = "ok" THEN "call" ELSE "except",
                [loc[c] EXCEPT !.img = r.img,
                               !.question = IF r.exc = "ok" THEN HC_QUESTION ELSE @,
                               !.exc = IF r.exc = "ok" THEN @ ELSE r.exc],
                r.es, r.fs)

\* lines 79-85: self.model exists only when __init__ found a Gemini key
\* (lines 27-29); the answer is split into words
HC_Call(c) ==
    /\ handler[c] = HC /\ pc[c] = "call"
    /\ IF ~env.GEMINI_API_KEY
       THEN Do(c, "except", [loc[c] EXCEPT !.exc = "AttributeError"], <<>>, fs)
       ELSE \/ \E text \in ResponseTexts :
                 Do(c, "stream", [loc[c] EXCEPT !.words = SplitWords(text)],
                    <<Ev(c, "generate_content",
                         VoiceParts(loc[c].question, loc[c].img), "ok")>>, fs)
            \/ \E x \in ProviderOutcomes \ {"ok"} :
                 Do(c, "except", [loc[c] EXCEPT !.exc = x],
                    <<Ev(c, "generate_content",
                         VoiceParts(loc[c].question, loc[c].img), x)>>, fs)

\* lines 85-87: one word of the answer
HC_SendWord(c) ==
    /\ handler[c] = HC /\ pc[c] = "stream"
    /\ loc[c].words # <<>>
    /\ \E o \in WsOutcomes :
         Do(c, IF o = "ok" THEN "stream" ELSE "except",
            [loc[c] EXCEPT !.words = Tail(@),
                           !.exc = IF o = "ok" THEN @ ELSE o],
            <<Ev(c, "send", JsonFrame(TextMsg(Head(loc[c].words) \o <<" ">>)), o)>>,
            fs)

\* lines 90-94
HC_Cleanup(c) ==
    /\ handler[c] = HC /\ pc[c] = "stream"
    /\ loc[c].words = <<>>
    /\ \E r \in FileOutcomes :
         /\ fs[TEMP_SCREENSHOT_PNG] = 0 => r = "ok"
         /\ Do(c, IF r = "ok" THEN "done" ELSE "except",
               [loc[c] EXCEPT !.exc = IF r = "ok" THEN @ ELSE r,
                              !.audio_buffer = IF r = "ok" THEN <<>> ELSE @],
               IF fs[TEMP_SCREENSHOT_PNG] # 0
               THEN <<Ev(c, "remove", TEMP_SCREENSHOT_PNG, r)>> ELSE <<>>,
               IF r = "ok" THEN [fs EXCEPT ![TEMP_SCREENSHOT_PNG] = 0] ELSE fs)

\* lines 96-98
HC_Except(c) ==
    /\ handler[c] = HC /\ pc[c] = "except"
    /\ \E o \in CallOutcomes :
         Do(c, IF o = "ok" THEN "done" ELSE "raised", loc[c],
            <<Ev(c, "send", JsonFrame(ErrorMsg(<<loc[c].exc>>)), o)>>, fs)

handle_conversation(c) ==
    \/ HC_CheckKey(c) \/ HC_Receive(c) \/ HC_Status(c) \/ HC_Capture(c)
    \/ HC_Call(c) \/ HC_SendWord(c) \/ HC_Cleanup(c) \/ HC_Except(c)

SV == "simple_voice_to_screen_analysis"

SV_TRANSCRIPT == "What's on my screen?"

\* audio_data arguments of simple_voice_to_screen_analysis
AudioArguments == {<<>>, <<7>>, <<7, 8>>}

SimpleVoiceLocals(audio_data) ==
    [audio_data |-> audio_data, transcript |-> "", img |-> 0,
     response |-> <<>>, result |-> NoneStr, exc |-> NoneStr]

\* lines 120-126: the speech service is built, the transcript is a placeholder
SV_Setup(c) ==
    /\ handler[c] = SV /\ pc[c] = "start"
    /\ \E o \in CallOutcomes :
         Do(c, IF o = "ok" THEN "capture" ELSE "raised",
            [loc[c] EXCEPT !.transcript = IF o = "ok" THEN SV_TRANSCRIPT ELSE @,
                           !.exc = IF o = "ok" THEN @ ELSE o],
            <<Ev(c, "setup", NoneStr, o)>>, fs)

\* lines 129-136
SV_Capture(c) ==
    /\ handler[c] = SV /\ pc[c] = "capture"
    /\ \E shot \in ShotOutcomes, open \in FileOutcomes :
         LET r == CaptureAndOpen(c, TEMP_SCREENSHOT_PNG, shot, open)
         IN  Do(c, IF r.exc = "ok" THEN "call" ELSE "raised",
                [loc[c] EXCEPT !.img = r.img,
                               !.exc = IF r.exc = "ok" THEN @ ELSE r.exc],
                r.es, r.fs)

\* lines 138-141
SV_Call(c) ==
    /\ handler[c] = SV /\ pc[c] = "call"
    /\ \/ \E text \in ResponseTexts :
            Do(c, "cleanup", [loc[c] EXCEPT !.response = text],
               <<Ev(c, "generate_content",
                    VoiceParts(loc[c].transcript, loc[c].img), "ok")>>, fs)
       \/ \E x \in ProviderOutcomes \ {"ok"} :
            Do(c, "raised", [loc[c] EXCEPT !.exc = x],
               <<Ev(c, "generate_content",
                    VoiceParts(loc[c].transcript, loc[c].img), x)>>, fs)

\* lines 144-147
SV_Cleanup(c) ==
    /\ handler[c] = SV /\ pc[c] = "cleanup"
    /\ \E r \in FileOutcomes :
         /\ fs[TEMP_SCREENSHOT_PNG] = 0 => r = "ok"
         /\ Do(c, IF r = "ok" THEN "done" ELSE "raised",
               [loc[c] EXCEPT !.exc = IF r = "ok" THEN @ ELSE r,
                              !.result = IF r = "ok" THEN loc[c].response ELSE @],
               IF fs[TEMP_SCREENSHOT_PNG] # 0
               THEN <<Ev(c, "remove", TEMP_SCREENSHOT_PNG, r)>> ELSE <<>>,
               IF r = "ok" THEN [fs EXCEPT ![TEMP_SCREENSHOT_PNG] = 0] ELSE fs)

simple_voice_to_screen_analysis(c) ==
    \/ SV_Setup(c) \/ SV_Capture(c) \/ SV_Call(c) \/ SV_Cleanup(c)

\* =============================================== backend/pipecat_handler.py
AG == "analyze_with_gemini"

\* question arguments of analyze_with_gemini
Questions == {"What is this?", "Which window is open?"}

AnalyzeLocals(question) ==
    [question |-> question, img |-> 0, response |-> <<>>, result |-> NoneStr,
     exc |-> NoneStr]

\* lines 53-58
AG_Capture(c) ==
    /\ handler[c] = AG /\ pc[c] = "start"
    /\ \E shot \in ShotOutcomes, open \in FileOutcomes :
         LET r == CaptureAndOpen(c, SCREENSHOT_TEMP_PNG, shot, open)
         IN  Do(c, IF r.exc = "ok" THEN "call" ELSE "except",
                [loc[c] EXCEPT !.img = r.img,
                               !.exc = IF r.exc = "ok" THEN @ ELSE r.exc],
                r.es, r.fs)

\* lines 59-62
AG_Call(c) ==
    /\ handler[c] = AG /\ pc[c] = "call"
    /\ \/ \E text \in ResponseTexts :
            Do(c, "cleanup", [loc[c] EXCEPT !.response = text],
               <<Ev(c, "generate_content",
                    VoiceParts(loc[c].question, loc[c].img), "ok")>>, fs)
       \/ \E x \in ProviderOutcomes \ {"ok"} :
            Do(c, "except", [loc[c] EXCEPT !.exc = x],
               <<Ev(c, "generate_content",
                    VoiceParts(loc[c].question, loc[c].img), x)>>, fs)

\* lines 65-68
AG_Cleanup(c) ==
    /\ handler[c] = AG /\ pc[c] = "cleanup"
    /\ \E r \in FileOutcomes :
         /\ fs[SCREENSHOT_TEMP_PNG] = 0 => r = "ok"
         /\ Do(c, IF r = "ok" THEN "done" ELSE "except",
               [loc[c] EXCEPT !.exc = IF r = "ok" THEN @ ELSE r,
                              !.result = IF r = "ok" THEN loc[c].response ELSE @],
               IF fs[SCREENSHOT_TEMP_PNG] # 0
               THEN <<Ev(c, "remove", SCREENSHOT_TEMP_PNG, r)>> ELSE <<>>,
               IF r = "ok" THEN [fs EXCEPT ![SCREENSHOT_TEMP_PNG] = 0] ELSE fs)

\* lines 69-71: every exception becomes the returned apology
AG_Except(c) ==
    /\ handler[c] = AG /\ pc[c] = "except"
    /\ Do(c, "done",
          [loc[c] EXCEPT !.result = <<"Sorry, I encountered an error: ", loc[c].exc>>],
          <<>>, fs)

analyze_with_gemini(c) ==
    \/ AG_Capture(c) \/ AG_Call(c) \/ AG_Cleanup(c) \/ AG_Except(c)

\* ======================================================= screenshot_app.py
APP == "screenshot_app"

\* keyboard.Key.enter, keyboard.Key.esc and a character key
Keys == {"enter", "esc", "a"}

AppLocals == [nkeys |-> 0, img |-> 0, exc |-> NoneStr]

APP_QUESTION == "What is in this image?"

\* a key event delivered by the listener
Key(c, ev, key) == [ev |-> ev, a |-> key, out |-> "ok", at |-> pc[c]]

\* lines 19-24, 26-40: take_screenshot() then describe_screenshot().  An
\* exception of the capture leaves on_press; describe_screenshot catches
\* those of Image.open and of the provider and removes the file in its
\* finally clause, whose own exception leaves on_press.
APP_CaptureAndDescribe(c, shot, open, o, r) ==
    LET f == IF shot.file THEN [fs EXCEPT ![SCREENSHOT_PNG] = c] ELSE fs
        exists == f[SCREENSHOT_PNG] # 0
        opened == IF exists THEN open ELSE "FileNotFoundError"
    IN  IF shot.out # "ok"
        THEN [pc |-> "raised", exc |-> shot.out, img |-> 0, fs |-> f,
              es |-> <<Ev(c, "capture", SCREENSHOT_PNG, shot.out)>>]
        ELSE [pc |-> IF exists /\ r # "ok" THEN "raised" ELSE "listening",
              exc |-> IF exists /\ r # "ok" THEN r ELSE NoneStr,
              img |-> IF opened = "ok" THEN f[SCREENSHOT_PNG] ELSE 0,
              fs |-> IF r = "ok" THEN [f EXCEPT ![SCREENSHOT_PNG] = 0] ELSE f,
              es |-> <<Ev(c, "capture", SCREENSHOT_PNG, "ok"),
                       Ev(c, "open", SCREENSHOT_PNG, opened)>>
                     \o (IF opened = "ok"
                         THEN <<Ev(c, "generate_content",
                                   VoiceParts(APP_QUESTION, f[SCREENSHOT_PNG]), o)>>
                         ELSE <<>>)
                     \o (IF exists THEN <<Ev(c, "remove", SCREENSHOT_PNG, r)>>
                         ELSE <<>>)]

\* Esc released without stopping the listener
APP_OnRelease_NoStop(c) ==
    /\ handler[c] = APP /\ pc[c] = "listening" /\ loc[c].nkeys < MaxKeys
    /\ \E key \in Keys :
         Do(c, "listening", [loc[c] EXCEPT !.nkeys = @ + 1],
            <<Key(c, "release", key)>>, fs)

\* lines 42-47: on_press
APP_OnPress(c) ==
    /\ handler[c] = APP /\ pc[c] = "listening" /\ loc[c].nkeys < MaxKeys
    /\ \E key \in Keys :
         IF key = "enter"
         THEN \E shot \in ShotOutcomes, open \in FileOutcomes,
                 o \in ProviderOutcomes, r \in FileOutcomes :
                LET d == APP_CaptureAndDescribe(c, shot, open, o, r) IN
                Do(c, d.pc,
                   [loc[c] EXCEPT !.nkeys = @ + 1, !.img = d.img, !.exc = d.exc],
                   <<Key(c, "press", key)>> \o d.es, d.fs)
         ELSE Do(c, "listening", [loc[c] EXCEPT !.nkeys = @ + 1],
                 <<Key(c, "press", key)>>, fs)

\* lines 49-53: on_release; returning False stops the listener
APP_OnRelease(c) ==
    /\ handler[c] = APP /\ pc[c] = "listening" /\ loc[c].nkeys < MaxKeys
    /\ \E key \in Keys :
         Do(c, IF key = "esc" THEN "stopped" ELSE "listening",
            [loc[c] EXCEPT !.nkeys = @ + 1], <<Key(c, "release", key)>>, fs)

\* lines 61-64: keys typed once the listener has stopped reach no callback
APP_KeyUnheard(c) ==
    /\ handler[c] = APP /\ pc[c] \in {"stopped", "raised"}
    /\ loc[c].nkeys < MaxKeys
    /\ \E key \in Keys, ev \in {"press", "release"} :
         Do(c, pc[c], [loc[c] EXCEPT !.nkeys = @ + 1], <<Key(c, ev, key)>>, fs)

screenshot_app(c) == APP_OnPress(c) \/ APP_OnRelease(c) \/ APP_KeyUnheard(c)

\* ------------------------------------------------------- specifications
NoFiles == [p \in Paths |-> 0]

Init ==
    /\ handler = [c \in Conns |-> AS]
    /\ pc = [c \in Conns |-> "start"]
    /\ loc = [c \in Conns |-> AudioStreamLocals]
    /\ log = [c \in Conns |-> <<>>]
    /\ fs = NoFiles
    /\ env \in [DISABLE_SCREENSHOT : BOOLEAN, DEEPGRAM_API_KEY : {TRUE},
                GEMINI_API_KEY : {TRUE}]

Next == \E c \in Conns : audio_stream(c)

Spec == Init /\ [][Next]_vars

VoiceHandlers == {PV, US, HC, SV, AG}

InitLocals(h) ==
    CASE h = PV -> {PipecatVoiceLocals}
      [] h = US -> {UltraSimpleLocals}
      [] h = HC -> {HandleConversationLocals}
      [] h = SV -> {SimpleVoiceLocals(a) : a \in AudioArguments}
      [] h = AG -> {AnalyzeLocals(q) : q \in Questions}

InitVoice ==
    /\ handler \in [Conns -> VoiceHandlers]
    /\ pc = [c \in Conns |-> "start"]
    /\ loc \in [Conns -> UNION {InitLocals(h) : h \in VoiceHandlers}]
    /\ \A c \in Conns : loc[c] \in InitLocals(handler[c])
    /\ log = [c \in Conns |-> <<>>]
    /\ fs = NoFiles
    /\ env \in [DISABLE_SCREENSHOT : {FALSE}, DEEPGRAM_API_KEY : BOOLEAN,
                GEMINI_API_KEY : BOOLEAN]

NextVoice ==
    \E c \in Conns :
        \/ pipecat_voice_endpoint(c)
        \/ ultra_simple_voice_endpoint(c)
        \/ handle_conversation(c)
        \/ simple_voice_to_screen_analysis(c)
        \/ analyze_with_gemini(c)

SpecVoice == InitVoice /\ [][NextVoice]_vars

\* audio_stream up to its provider request (lines 65-124) and on its error
\* paths, with longer client streams
NextRecv ==
    \E c \in Conns :
        \/ AS_Accept(c) \/ AS_ReceiveFrom(c, ClientMessages, MaxFrames) \/ AS_NoAudio(c)
        \/ AS_Screenshot(c) \/ AS_SkipScreenshot(c) \/ AS_CallProvider(c)
        \/ AS_ExceptDisconnect(c) \/ AS_ExceptException(c) \/ AS_Finally(c)

SpecRecv == Init /\ [][NextRecv]_vars

\* audio_stream without screenshots, for one audio frame and longer answers
\* made of text increments
InitStream ==
    /\ handler = [c \in Conns |-> AS]
    /\ pc = [c \in Conns |-> "start"]
    /\ loc = [c \in Conns |-> AudioStreamLocals]
    /\ log = [c \in Conns |-> <<>>]
    /\ fs = NoFiles
    /\ env \in [DISABLE_SCREENSHOT : {TRUE}, DEEPGRAM_API_KEY : {TRUE},
                GEMINI_API_KEY : {TRUE}]

NextStream ==
    \E c \in Conns :
        \/ AS_Accept(c) \/ AS_ReceiveFrom(c, AudioThenEnd, 1) \/ AS_NoAudio(c)
        \/ AS_SkipScreenshot(c) \/ AS_CallProvider(c)
        \/ AS_NextChunkFrom(c, AnswerChunks, MaxAnswer) \/ AS_ChunkText(c)
        \/ AS_NoFollowUp(c) \/ AS_ImageCall(c) \/ AS_ImageSend(c)
        \/ AS_ExceptDisconnect(c) \/ AS_ExceptException(c) \/ AS_Finally(c)

SpecStream == InitStream /\ [][NextStream]_vars

\* ---- connections served concurrently by one event loop
Clients == {1, 2}

\* an answer of plain text increments
PlainChunks == {[parts |-> <<>>, text |-> <<"a">>]}

\* an await between the capture and the provider call
HoldsLoop_AwaitBeforeCall(p) ==
    p \in {"after_loop", "stream", "followup", "except_disconnect", "finally"}

\* positions at which a coroutine is running synchronous code: from the
\* return of websocket.receive() over capture, Image.open and the provider
\* call to the next await (a send, or close() after the removal)
HoldsLoop(p) ==
    p \in {"after_loop", "call", "stream", "followup", "except_disconnect", "finally"}

\* asyncio runs another coroutine only when the running one awaits
MayRun(c) == \A d \in DOMAIN pc \ {c} : ~HoldsLoop(pc[d])

InitConc ==
    /\ handler = [c \in Clients |-> AS]
    /\ pc = [c \in Clients |-> "start"]
    /\ loc = [c \in Clients |-> AudioStreamLocals]
    /\ log = [c \in Clients |-> <<>>]
    /\ fs = NoFiles
    /\ env \in [DISABLE_SCREENSHOT : {FALSE}, DEEPGRAM_API_KEY : {TRUE},
                GEMINI_API_KEY : {TRUE}]

NextConc ==
    \E c \in Clients :
        /\ MayRun(c)
        /\ \/ AS_Accept(c) \/ AS_ReceiveFrom(c, AudioThenEnd, 1)
           \/ AS_NoAudio(c) \/ AS_Screenshot(c) \/ AS_CallProvider(c)
           \/ AS_NextChunkFrom(c, PlainChunks, MaxTexts) \/ AS_ChunkText(c)
           \/ AS_NoFollowUp(c)
           \/ AS_ExceptDisconnect(c) \/ AS_ExceptException(c) \/ AS_Finally(c)

SpecConc == InitConc /\ [][NextConc]_vars

\* ---- voice handlers served concurrently by one event loop. Every position
\* of these handlers is an await: receive(), send_json(), asyncio.sleep() and
\* asyncio.to_thread(generate_content, ...), which returns control to the
\* loop between the capture and the completion of the provider call. The
\* synchronous stretches (sct.shot with Image.open; exists with remove) are
\* single actions, so the connections interleave at every action.
VoiceConcHandlers == {HC, AG}

\* the fixed screenshot path of a voice handler
ScreenshotPath(h) == IF h = HC THEN TEMP_SCREENSHOT_PNG ELSE SCREENSHOT_TEMP_PNG

InitVoiceConc ==
    /\ \E h \in VoiceConcHandlers : handler = [c \in Clients |-> h]
    /\ pc = [c \in Clients |-> "start"]
    /\ loc \in [Clients -> UNION {InitLocals(h) : h \in VoiceConcHandlers}]
    /\ \A c \in Clients : loc[c] \in InitLocals(handler[c])
    /\ log = [c \in Clients |-> <<>>]
    /\ fs = NoFiles
    /\ env \in [DISABLE_SCREENSHOT : {FALSE}, DEEPGRAM_API_KEY : {TRUE},
                GEMINI_API_KEY : {TRUE}]

NextVoiceConc ==
    \E c \in Clients :
        \/ HC_CheckKey(c) \/ HC_ReceiveFrom(c, AudioThenEnd, 1) \/ HC_Status(c)
        \/ HC_Capture(c) \/ HC_Call(c) \/ HC_SendWord(c) \/ HC_Cleanup(c)
        \/ HC_Except(c)
        \/ AG_Capture(c) \/ AG_Call(c) \/ AG_Cleanup(c) \/ AG_Except(c)

SpecVoiceConc == InitVoiceConc /\ [][NextVoiceConc]_vars

\* the command-line app from the start of the listener
InitApp ==
    /\ handler = [c \in Conns |-> APP]
    /\ pc = [c \in Conns |-> "listening"]
    /\ loc = [c \in Conns |-> AppLocals]
    /\ log = [c \in Conns |-> <<>>]
    /\ fs = NoFiles
    /\ env \in [DISABLE_SCREENSHOT : {FALSE}, DEEPGRAM_API_KEY : {TRUE},
                GEMINI_API_KEY : {TRUE}]

NextApp == \E c \in Conns : screenshot_app(c)

SpecApp == InitApp /\ [][NextApp]_vars

\* ================================================================ claims
\* helpers over the history of one connection
IsExc(out) == out \notin {"ok", "StopIteration"}
Terminated(c) == pc[c] \in {"done", "raised"}
Events(c, ev) == {i \in DOMAIN log[c] : log[c][i].ev = ev}
Sends(c, types) ==
    {i \in Events(c, "send") : log[c][i].a.json.type \in types}
ReceivedEndOfStream(c) ==
    {i \in Events(c, "receive") : log[c][i].out = "ok" /\ log[c][i].a = END_OF_STREAM}
Accepted(c) == \E i \in Events(c, "accept") : log[c][i].out = "ok"

\* C1: in audio_stream the text provider is called at most once per
\* connection, only after END_OF_STREAM has been received with audio in the
\* buffer and, when screenshots are enabled, only after the capture attempt;
\* no text or image message is sent before the provider call.
C1_CaptureCallRelay ==
    \A c \in Conns : handler[c] = AS =>
        /\ Cardinality(Events(c, "generate_content")) <= 1
        /\ \A i \in Events(c, "generate_content") :
              /\ \E j \in ReceivedEndOfStream(c) : j < i
              /\ loc[c].audio_buffer # <<>>
              /\ log[c][i].a[2].data # <<>>
              /\ ~DISABLE_SCREENSHOT => \E j \in Events(c, "capture") : j < i
        /\ \A j \in Sends(c, {"text", "image"}) :
              \E i \in Events(c, "generate_content") : i < j

C1_Witness ==
    \E c \in Conns :
        /\ handler[c] = AS /\ pc[c] = "done" /\ ~DISABLE_SCREENSHOT
        /\ \E i \in Events(c, "capture"), j \in Events(c, "generate_content"),
              k \in Sends(c, {"text"}), m \in Sends(c, {"image"}) :
              i < j /\ j < k /\ j < m /\ log[c][k].out = "ok" /\ log[c][m].out = "ok"

\* the non-empty text increments a chunk of the provider carries
ChunkIncrements(chunk) ==
    IF chunk.parts # <<>>
    THEN SelectSeq([i \in DOMAIN chunk.parts |-> chunk.parts[i].text],
                   LAMBDA t : t # <<>>)
    ELSE IF chunk.text # <<>> THEN <<chunk.text>> ELSE <<>>

\* the increments of the chunks taken from the stream, in the order taken
RECURSIVE IncrementsTaken(_)
IncrementsTaken(l) ==
    IF l = <<>> THEN <<>>
    ELSE (IF Head(l).ev = "chunk" /\ Head(l).out = "ok"
          THEN ChunkIncrements(Head(l).a) ELSE <<>>) \o IncrementsTaken(Tail(l))

\* the data of the text messages: every send attempted, or those delivered
RECURSIVE TextsSent(_, _)
TextsSent(l, delivered) ==
    IF l = <<>> THEN <<>>
    ELSE (IF Head(l).ev = "send" /\ Head(l).a.json.type = "text"
             /\ (delivered => Head(l).out = "ok")
          THEN <<Head(l).a.json.data>> ELSE <<>>) \o TextsSent(Tail(l), delivered)

IsPrefix(s, t) == Len(s) <= Len(t) /\ SubSeq(t, 1, Len(s)) = s

\* the increments of the current chunk that are still to be relayed
PendingIncrements(c) ==
    IF pc[c] = "parts"
    THEN ChunkIncrements([parts |-> loc[c].parts, text |-> <<>>])
    ELSE IF pc[c] = "chunk_text" THEN <<loc[c].chunk_text>> ELSE <<>>

\* C2: audio_stream relays the provider's non-empty text increments in
\* emission order, each exactly once and unmerged; the increments of a chunk
\* are delivered before the next chunk is taken from the stream, and when
\* the stream has ended every increment has been delivered.
C2_RelayInOrder ==
    \A c \in Conns : handler[c] = AS =>
        LET taken == IncrementsTaken(log[c])
            tried == TextsSent(log[c], FALSE)
            delivered == TextsSent(log[c], TRUE)
        IN  /\ IsPrefix(tried, taken)
            /\ IsPrefix(delivered, tried) /\ Len(tried) <= Len(delivered) + 1
            /\ pc[c] \in {"stream", "chunk_text", "parts"} =>
                  delivered \o PendingIncrements(c) = taken
            /\ (\E i \in Events(c, "chunk") : log[c][i].out = "StopIteration") =>
                  delivered = taken

C2_Witness ==
    \E c \in Conns :
        /\ handler[c] = AS /\ pc[c] = "done"
        /\ LET taken == IncrementsTaken(log[c]) IN
              /\ Len(taken) >= 2 /\ taken[1] # taken[2]
              /\ TextsSent(log[c], TRUE) = taken
              /\ \E i \in Events(c, "chunk") :
                    /\ log[c][i].out = "ok"
                    /\ \E k \in DOMAIN log[c][i].a.parts :
                          log[c][i].a.parts[k] = TextPart(<<>>)

\* C3: when audio_stream has terminated and no removal of the screenshot
\* failed, screenshot.png does not exist.
C3_ScreenshotDeleted ==
    \A c \in Conns :
        (/\ handler[c] = AS /\ Terminated(c)
         /\ \A i \in Events(c, "remove") : log[c][i].out = "ok")
            => fs[SCREENSHOT_PNG] = 0

C3_Witness ==
    \E c \in Conns :
        /\ handler[c] = AS /\ Terminated(c) /\ fs[SCREENSHOT_PNG] = 0
        /\ \E i \in Events(c, "remove") : log[c][i].out = "ok"
        /\ \E i \in Events(c, "generate_content") : IsExc(log[c][i].out)

\* exceptions, other than a client disconnect, raised after accept and before
\* the except and finally clauses
RaisedInBody(c) ==
    {i \in DOMAIN log[c] :
        /\ IsExc(log[c][i].out) /\ log[c][i].out # "WebSocketDisconnect"
        /\ log[c][i].at \notin {"start", "except_exception", "finally"}}

\* those of them that leave the try body: the screenshot block and the image
\* follow-up contain their own
Escaping(c) ==
    {i \in RaisedInBody(c) :
        /\ log[c][i].at \in {"receive", "after_loop", "call", "stream",
                             "chunk_text", "parts"}
        /\ log[c][i].ev \notin {"capture", "open"}}

\* catch, report, close after the exception at position i of the history
ReportedAndClosed(c, i) ==
    /\ \A j \in Events(c, "generate_content") :
          j > i => \A k \in Events(c, "generate_content") : k > i
    /\ \A j \in Sends(c, {"text", "image"}) : j <= i
    /\ Cardinality({j \in Sends(c, {"error"}) : j > i}) <= 1
    /\ Terminated(c) =>
          /\ \E j \in Sends(c, {"error"}), k \in Events(c, "close") : i < j /\ j < k
          /\ fs[SCREENSHOT_PNG] # 0 => \E k \in Events(c, "remove") : k > i

\* C5 as stated: every exception other than a client disconnect raised after
\* accept is reported with exactly one error message, followed by no provider
\* call and no text or image message, and the connection is closed.
C5_AnyExceptionReported ==
    \A c \in Conns : handler[c] = AS =>
        \A i \in RaisedInBody(c) : ReportedAndClosed(c, i)

\* C5 amended: the same for the exceptions that leave the try body (raised by
\* receive, by a send, by the text provider call or its stream, or by saving
\* an in-stream image); a failing error send is swallowed, clean-up and close
\* still follow.
C5_EscapingExceptionReported ==
    \A c \in Conns : handler[c] = AS =>
        \A i \in Escaping(c) :
            /\ ReportedAndClosed(c, i)
            /\ \A j \in DOMAIN log[c] :
                  j > i => log[c][j].ev \notin
                              {"generate_content", "generate_image", "chunk"}

C5_Witness ==
    \E c \in Conns :
        /\ handler[c] = AS /\ Terminated(c)
        /\ \E i \in Escaping(c), j \in Sends(c, {"error"}), k \in Events(c, "remove") :
              /\ i < j /\ j < k /\ log[c][j].out # "ok"
              /\ log[c][i].ev = "chunk"

\* C7: close() is called at most once and nothing follows it; once an
\* accepted connection's handler has terminated it has been called exactly
\* once, also when removing the screenshot failed.
C7_CloseOnceAndLast ==
    \A c \in Conns : handler[c] = AS =>
        /\ \A i \in Events(c, "close") : i = Len(log[c]) /\ Terminated(c)
        /\ (Terminated(c) /\ Accepted(c)) => Cardinality(Events(c, "close")) = 1

C7_Witness ==
    \E c \in Conns :
        /\ handler[c] = AS /\ Terminated(c) /\ fs[SCREENSHOT_PNG] # 0
        /\ \E i \in Events(c, "remove"), k \in Events(c, "close") :
              log[c][i].out # "ok" /\ i < k

\* C8: with DISABLE_SCREENSHOT no capture is ever made and the provider gets
\* the prompt and the audio only; without it a connection makes at most one
\* capture attempt, and exactly one when it reaches the provider call.
C8_ScreenshotSwitch ==
    \A c \in Conns : handler[c] = AS =>
        /\ DISABLE_SCREENSHOT =>
              /\ Events(c, "capture") = {}
              /\ \A i \in Events(c, "generate_content") :
                    /\ Len(log[c][i].a) = 2
                    /\ log[c][i].a[1] = [kind |-> "text", text |-> PROMPT]
                    /\ log[c][i].a[2].kind = "audio"
        /\ ~DISABLE_SCREENSHOT =>
              /\ Cardinality(Events(c, "capture")) <= 1
              /\ Events(c, "generate_content") # {} =>
                    Cardinality(Events(c, "capture")) = 1

C8_Witness ==
    \E c \in Conns :
        /\ handler[c] = AS /\ pc[c] = "done" /\ DISABLE_SCREENSHOT
        /\ \E i \in Events(c, "generate_content") : log[c][i].out = "ok"
        /\ Sends(c, {"text"}) # {}

\* a base64 text: groups of four digits, padding only at the very end
IsBase64(d) ==
    /\ Len(d) % 4 = 0
    /\ \A i \in DOMAIN d :
          /\ d[i] \in 0..64
          /\ d[i] = 64 => i >= Len(d) - 1 /\ d[Len(d)] = 64

\* C9: every message audio_stream sends is one JSON object of type text,
\* image or error; a text message has non-empty data, an image message has a
\* mime type (image/png when the provider names none) and base64 data, an
\* error message has data.
C9_JsonFraming ==
    \A c \in Conns : handler[c] = AS =>
        \A i \in Events(c, "send") :
            LET m == log[c][i].a.json IN
            /\ log[c][i].a.frame = "text"
            /\ m.type \in {"text", "image", "error"}
            /\ m.type = "text" => DOMAIN m = {"type", "data"} /\ m.data # <<>>
            /\ m.type = "error" => DOMAIN m = {"type", "data"}
            /\ m.type = "image" =>
                  /\ DOMAIN m = {"type", "mime_type", "data"}
                  /\ m.mime_type \notin {"", NoneStr}
                  /\ IsBase64(m.data)
                  /\ \/ m.mime_type = "image/png"
                     \/ \E r \in ImageResponses :
                           \E p \in DOMAIN AS_ImageParts(r) :
                              AS_ImageParts(r)[p].inline_data.mime_type = m.mime_type

C9_Witness ==
    \E c \in Conns :
        /\ handler[c] = AS /\ pc[c] = "done"
        /\ \E i \in Sends(c, {"image"}), j \in Sends(c, {"image"}) :
              /\ log[c][i].a.json.mime_type = "image/png"
              /\ log[c][i].a.json.data # <<>>
              /\ log[c][j].a.json.mime_type = "image/webp"

\* the screenshot file of each voice handler
VoiceScreenshot(h) == IF h = AG THEN SCREENSHOT_TEMP_PNG ELSE TEMP_SCREENSHOT_PNG

\* C4: once a voice handler has captured the screenshot, the file no longer
\* exists when the handler returns, whatever raised in between (removal
\* itself not failing).
C4_TempScreenshotDeleted ==
    \A c \in Conns :
        (/\ handler[c] \in {PV, US, HC, AG} /\ Terminated(c)
         /\ \E i \in Events(c, "capture") : log[c][i].out = "ok"
         /\ \A i \in Events(c, "remove") : log[c][i].out = "ok")
            => fs[VoiceScreenshot(handler[c])] = 0

\* exceptions, other than a client disconnect, raised in the loop of a voice
\* handler
RaisedInLoop(c) ==
    {i \in DOMAIN log[c] :
        /\ IsExc(log[c][i].out) /\ log[c][i].out # "WebSocketDisconnect"
        /\ log[c][i].at \in {"receive", "transcribe", "status", "capture", "call",
                             "stream", "cleanup"}}

\* C6: when an exception is raised in the loop of pipecat_voice_endpoint,
\* ultra_simple_voice_endpoint or handle_conversation, the handler sends one
\* error message and has closed the WebSocket when it returns.
C6_ReportAndClose ==
    \A c \in Conns :
        (handler[c] \in {PV, US, HC} /\ Terminated(c)) =>
            \A i \in RaisedInLoop(c) :
                /\ Cardinality({j \in Sends(c, {"error"}) : j > i}) = 1
                /\ \E k \in Events(c, "close") : k > i

\* the hard-coded question of the handlers that do not transcribe
Placeholder(h) ==
    CASE h = PV -> "What can you see on my screen?"
      [] h = HC -> "What do you see on this screen?"
      [] h = SV -> "What's on my screen?"

\* the audio a handler has been given
AudioHeld(h, l) ==
    CASE h = PV -> l.audio_chunk
      [] h = HC -> l.audio_buffer
      [] h = SV -> l.audio_data

\* the last step of connection c stored a binary frame
StoredAudio(c) ==
    /\ Len(log'[c]) = Len(log[c]) + 1
    /\ log'[c][Len(log'[c])].ev = "receive"
    /\ log'[c][Len(log'[c])].a = "bytes"

\* C10: in pipecat_voice_endpoint, handle_conversation and
\* simple_voice_to_screen_analysis every provider request is the handler's
\* hard-coded question and the screenshot, whatever audio was received, and
\* receiving audio changes nothing but the stored audio: position, files and
\* every other local stay as they are.
C10_PlaceholderQuestion ==
    [][\A c \in Conns : handler[c] \in {PV, HC, SV} =>
          /\ \A i \in Events(c, "generate_content")' :
                /\ Len(log'[c][i].a) = 2
                /\ log'[c][i].a[1] = [kind |-> "text", text |-> Placeholder(handler[c])]
                /\ log'[c][i].a[2].kind = "image"
          /\ StoredAudio(c) =>
                /\ pc'[c] = pc[c] /\ fs' = fs
                /\ \A f \in DOMAIN loc[c] \ {"audio_chunk", "audio_buffer", "nrecv"} :
                      loc'[c][f] = loc[c][f]]_vars

C10_Witness ==
    \E c \in Conns :
        /\ handler[c] \in {PV, HC} /\ pc[c] = "done"
        /\ AudioHeld(handler[c], loc[c]) # <<>> \/ handler[c] = HC
        /\ \E i \in Events(c, "receive") : log[c][i].a = "bytes"
        /\ \E i \in Events(c, "generate_content") : log[c][i].out = "ok"

\* ---------------------------------------------------------------- C11
\* key events the callbacks handled: those delivered while listening
Handled(c, ev, key) ==
    {i \in Events(c, ev) : log[c][i].a = key /\ log[c][i].at = "listening"}

KeyEvents(c) == Events(c, "press") \cup Events(c, "release")

\* the external calls made for the key event at position i
CallsFor(c, i) ==
    {j \in DOMAIN log[c] :
        /\ j > i /\ j \notin KeyEvents(c)
        /\ \A k \in KeyEvents(c) : k > i => j < k}

\* nothing is captured or asked once Esc was released
NoCaptureAfterEsc(c) ==
    \A i \in Handled(c, "release", "esc") :
        \A j \in DOMAIN log[c] : j > i => j \in KeyEvents(c)

\* the file is gone when the description of the latest capture has returned
FileGoneAfterDescription(c) ==
    \A i \in Events(c, "capture") :
        (/\ \A j \in Events(c, "capture") : j <= i
         /\ \E j \in Events(c, "open") : j > i
         /\ \A j \in Events(c, "remove") : j > i => log[c][j].out = "ok")
            => fs[SCREENSHOT_PNG] = 0

\* C11 as stated: every Enter press handled before Esc is released makes
\* exactly one capture followed by exactly one description (Image.open of
\* describe_screenshot), the file is gone after the description whether or
\* not the provider failed, and nothing is captured after Esc is released.
C11_EveryEnterDescribed ==
    \A c \in Conns : handler[c] = APP =>
        /\ \A i \in Handled(c, "press", "enter") :
              /\ Cardinality(CallsFor(c, i) \cap Events(c, "capture")) = 1
              /\ Cardinality(CallsFor(c, i) \cap Events(c, "open")) = 1
              /\ log[c][i + 1].ev = "capture" /\ log[c][i + 2].ev = "open"
        /\ FileGoneAfterDescription(c)
        /\ NoCaptureAfterEsc(c)

\* C11 (amended): every Enter press handled before Esc is released makes
\* exactly one capture attempt; when the capture returns, exactly one
\* description follows it, with at most one provider request, and the file is
\* gone afterwards whether or not the provider failed; when the capture
\* raises, no description is made and the listener handles no further key;
\* nothing is captured after Esc is released.
C11_EnterCapturesThenDescribes ==
    \A c \in Conns : handler[c] = APP =>
        /\ \A i \in Handled(c, "press", "enter") :
              /\ Cardinality(CallsFor(c, i) \cap Events(c, "capture")) = 1
              /\ log[c][i + 1].ev = "capture"
              /\ Cardinality(CallsFor(c, i) \cap Events(c, "generate_content")) <= 1
              /\ log[c][i + 1].out = "ok" =>
                    /\ Cardinality(CallsFor(c, i) \cap Events(c, "open")) = 1
                    /\ log[c][i + 2].ev = "open"
              /\ log[c][i + 1].out # "ok" =>
                    /\ CallsFor(c, i) = {i + 1}
                    /\ pc[c] = "raised"
                    /\ \A j \in DOMAIN log[c] : j > i + 1 => log[c][j].at = "raised"
        /\ \A i \in KeyEvents(c) \ Handled(c, "press", "enter") : CallsFor(c, i) = {}
        /\ FileGoneAfterDescription(c)
        /\ NoCaptureAfterEsc(c)

C11_Witness ==
    \E c \in Conns :
        /\ handler[c] = APP /\ pc[c] = "stopped" /\ fs[SCREENSHOT_PNG] = 0
        /\ \E i \in Handled(c, "press", "enter") :
              /\ \E j \in CallsFor(c, i) :
                    log[c][j].ev = "generate_content" /\ IsExc(log[c][j].out)
              /\ \E j \in CallsFor(c, i) : log[c][j].ev = "remove"
        /\ \E i \in Events(c, "press") :
              log[c][i].a = "enter" /\ log[c][i].at = "stopped"

\* ---------------------------------------------------------------- C12
\* END_OF_STREAM received with no audio byte received before it
EndOfStreamWithoutAudio(c) ==
    {i \in ReceivedEndOfStream(c) :
        \A j \in Events(c, "receive") :
            (j < i /\ log[c][j].out = "ok" /\ "bytes" \in DOMAIN log[c][j].data)
                => log[c][j].data.bytes = <<>>}

NoAudioMsg == JsonFrame(ErrorMsg(<<"No audio data received.">>))

\* C12 as stated: after END_OF_STREAM without audio the handler sends exactly
\* one message, the no-audio error, makes no capture and no provider call,
\* sends nothing else and closes.
C12_NoAudioOnlyError ==
    \A c \in Conns : handler[c] = AS =>
        \A i \in EndOfStreamWithoutAudio(c) :
            /\ Events(c, "capture") = {} /\ Events(c, "generate_content") = {}
            /\ Events(c, "generate_image") = {}
            /\ \A j \in Events(c, "send") : j = i + 1 /\ log[c][j].a = NoAudioMsg
            /\ pc[c] # "after_loop" => i + 1 \in Events(c, "send")
            /\ Terminated(c) => Events(c, "close") # {}

\* C12 (amended): after END_OF_STREAM without audio the handler makes no
\* capture and no provider call, its next step is one send of the no-audio
\* error, and it closes; it sends nothing else unless that send raises an
\* exception other than a disconnect, which the except clause reports with
\* one further message of type error.
C12_NoAudioReported ==
    \A c \in Conns : handler[c] = AS =>
        \A i \in EndOfStreamWithoutAudio(c) :
            /\ Events(c, "capture") = {} /\ Events(c, "generate_content") = {}
            /\ Events(c, "generate_image") = {}
            /\ pc[c] # "after_loop" =>
                  /\ i + 1 \in Events(c, "send") /\ log[c][i + 1].a = NoAudioMsg
            /\ \A j \in Events(c, "send") :
                  \/ j = i + 1
                  \/ /\ j = i + 2 /\ log[c][j].a.json.type = "error"
                     /\ IsExc(log[c][i + 1].out)
                     /\ log[c][i + 1].out # "WebSocketDisconnect"
            /\ Terminated(c) =>
                  /\ Events(c, "close") # {}
                  /\ \A j \in Events(c, "close") : j > i + 1
                  /\ (IsExc(log[c][i + 1].out)
                      /\ log[c][i + 1].out # "WebSocketDisconnect")
                        => i + 2 \in Events(c, "send")

C12_Witness ==
    \E c \in Conns :
        /\ handler[c] = AS /\ pc[c] = "done"
        /\ \E i \in EndOfStreamWithoutAudio(c) :
              /\ i > 2
              /\ log[c][i + 1].ev = "send" /\ log[c][i + 1].out = "ok"
              /\ Cardinality(Events(c, "send")) = 1

\* ---------------------------------------------------------------- C13
\* the bytes of the binary frames among the first n events of the history,
\* in the order they were received
RECURSIVE BytesReceived(_, _)
BytesReceived(h, n) ==
    IF n = 0 THEN <<>>
    ELSE BytesReceived(h, n - 1)
         \o (IF h[n].ev = "receive" /\ h[n].out = "ok" /\ "bytes" \in DOMAIN h[n].data
             THEN h[n].data.bytes ELSE <<>>)

IsEndOfStream(e) ==
    /\ e.ev = "receive" /\ e.out = "ok"
    /\ "text" \in DOMAIN e.data /\ e.data.text = END_OF_STREAM

\* C13: the audio handed to the provider is the concatenation, in arrival
\* order, of the binary frames received; a received message other than the
\* text END_OF_STREAM leaves the handler in the receive loop, END_OF_STREAM
\* ends it, and nothing is received after END_OF_STREAM.
C13_AudioIsFramesInOrder ==
    \A c \in Conns : handler[c] = AS =>
        /\ \A i \in Events(c, "generate_content") :
              /\ log[c][i].a[2].kind = "audio"
              /\ log[c][i].a[2].data = BytesReceived(log[c], i)
              /\ \A j \in 3..Len(log[c][i].a) : log[c][i].a[j].kind # "audio"
        /\ loc[c].audio_buffer = BytesReceived(log[c], Len(log[c]))
        /\ \A i \in Events(c, "receive") :
              /\ (i = Len(log[c]) /\ log[c][i].out = "ok") =>
                    (pc[c] = "receive" <=> ~IsEndOfStream(log[c][i]))
              /\ IsEndOfStream(log[c][i]) =>
                    \A j \in Events(c, "receive") : j <= i

C13_Witness ==
    \E c \in Conns :
        /\ handler[c] = AS
        /\ \E i \in Events(c, "generate_content") :
              /\ log[c][i].a[2].data = <<7, 8>>
              /\ \E j, k \in Events(c, "receive") :
                    /\ j < k /\ k < i
                    /\ log[c][j].a = "bytes" /\ log[c][k].a = "text"
                    /\ \E m \in Events(c, "receive") :
                          m > k /\ m < i /\ log[c][m].a = "bytes"

\* ---------------------------------------------------------------- C14
\* the audio_mime_type of a text frame that is a config message carrying one
ConfigMime(t) ==
    CASE t = CfgWav -> "audio/wav"
      [] t = CfgMp4 -> "audio/mp4"
      [] OTHER -> NoneStr

\* the mime type of the last such config message among the first n events;
\* None when there is none
RECURSIVE LastConfigMime(_, _)
LastConfigMime(h, n) ==
    IF n = 0 THEN NoneStr
    ELSE IF /\ h[n].ev = "receive" /\ h[n].out = "ok" /\ "text" \in DOMAIN h[n].data
            /\ ConfigMime(h[n].data.text) # NoneStr
         THEN ConfigMime(h[n].data.text)
    ELSE LastConfigMime(h, n - 1)

\* C14: the mime type of the audio handed to the provider is that of the last
\* config message with an audio_mime_type received, audio/webm when there is
\* none; any other text frame leaves the configured type as it is and raises
\* nothing.
C14_MimeOfLastConfig ==
    \A c \in Conns : handler[c] = AS =>
        /\ \A i \in Events(c, "generate_content") :
              log[c][i].a[2].mime_type =
                  (IF LastConfigMime(log[c], i) = NoneStr THEN "audio/webm"
                   ELSE LastConfigMime(log[c], i))
        /\ loc[c].audio_mime_type = LastConfigMime(log[c], Len(log[c]))
        /\ \A i \in Events(c, "receive") :
              (/\ i = Len(log[c]) /\ log[c][i].out = "ok"
               /\ "text" \in DOMAIN log[c][i].data /\ ~IsEndOfStream(log[c][i]))
                  => pc[c] = "receive" /\ loc[c].exc = NoneStr

C14_Witness ==
    \E c \in Conns :
        /\ handler[c] = AS
        /\ \E i \in Events(c, "generate_content") :
              /\ log[c][i].a[2].mime_type = "audio/mp4"
              /\ \E j, k \in Events(c, "receive") :
                    /\ j < k /\ k < i
                    /\ log[c][j].out = "ok" /\ "text" \in DOMAIN log[c][j].data
                    /\ log[c][j].data.text = CfgWav
                    /\ log[c][k].out = "ok" /\ "text" \in DOMAIN log[c][k].data
                    /\ log[c][k].data.text = CfgMp4

\* ---------------------------------------------------------------- C15
\* captures that raised or left no file to open
FailedCaptures(c) ==
    {i \in Events(c, "capture") :
        IsExc(log[c][i].out) \/ (i + 1) \notin Events(c, "open")}

\* C15: after a capture that raised or left no file the next step of
\* audio_stream is the one provider call, with the prompt and the audio and
\* no image; nothing is sent in between, and an error message is sent only
\* for an exception raised later on.
C15_FailedCaptureContained ==
    \A c \in Conns : handler[c] = AS =>
        \A i \in FailedCaptures(c) :
            /\ Cardinality(Events(c, "generate_content")) <= 1
            /\ pc[c] # "call" =>
                  /\ (i + 1) \in Events(c, "generate_content")
                  /\ Len(log[c][i + 1].a) = 2
                  /\ log[c][i + 1].a[1] = [kind |-> "text", text |-> PROMPT]
                  /\ log[c][i + 1].a[2].kind = "audio"
                  /\ log[c][i + 1].a[2].data = loc[c].audio_buffer
            /\ \A j \in Sends(c, {"error"}) :
                  \E e \in Escaping(c) : i < e /\ e < j

C15_Witness ==
    \E c \in Conns :
        /\ handler[c] = AS /\ pc[c] = "done"
        /\ \E i \in FailedCaptures(c) : IsExc(log[c][i].out)
        /\ Sends(c, {"error"}) = {} /\ Sends(c, {"text"}) # {}

\* ---------------------------------------------------------------- C16
\* the lines of a text that start, stripped and upper-cased, with the marker
MarkerLines(text) ==
    {k \in DOMAIN SplitLines(text) :
        StartsWith(Upper(Strip(SplitLines(text)[k])), IMAGE_PROMPT_MARKER)}

\* what follows the first colon of the first marker line; empty when the
\* text has no marker line
FirstMarkerRemainder(text) ==
    IF MarkerLines(text) = {} THEN <<>>
    ELSE LET k == CHOOSE k \in MarkerLines(text) : \A j \in MarkerLines(text) : k <= j
         IN  AfterFirstColon(SplitLines(text)[k])

StreamEnded(c) ==
    \E i \in Events(c, "chunk") : log[c][i].out = "StopIteration"

\* the image model is called at most once, only after the text stream has
\* ended, with the stripped remainder of the first IMAGE_PROMPT line
ImageCallAfterStream(c) ==
    /\ Cardinality(Events(c, "generate_image")) <= 1
    /\ \A i \in Events(c, "generate_image") :
          /\ \E j \in Events(c, "chunk") :
                log[c][j].out = "StopIteration" /\ j < i
          /\ \A j \in Events(c, "chunk") \cup Sends(c, {"text"}) : j < i
          /\ log[c][i].a = Strip(FirstMarkerRemainder(loc[c].collected_text))

\* C16 as stated: the image model is called at most once, only after the
\* text stream has ended, with the stripped remainder of the first
\* IMAGE_PROMPT line of the collected text; once the stream has ended and the
\* follow-up has been decided, it has been called exactly when that line has
\* a non-empty remainder after its first colon.
C16_CalledIffRemainder ==
    \A c \in Conns : handler[c] = AS =>
        /\ ImageCallAfterStream(c)
        /\ (StreamEnded(c) /\ pc[c] # "followup") =>
              (Events(c, "generate_image") # {}
                  <=> FirstMarkerRemainder(loc[c].collected_text) # <<>>)

\* C16 (amended): as above, the image model being called exactly when the
\* remainder is not empty once surrounding whitespace is removed, so that the
\* prompt passed is never empty.
C16_FollowUpTrigger ==
    \A c \in Conns : handler[c] = AS =>
        /\ ImageCallAfterStream(c)
        /\ \A i \in Events(c, "generate_image") : log[c][i].a # <<>>
        /\ (StreamEnded(c) /\ pc[c] # "followup") =>
              (Events(c, "generate_image") # {}
                  <=> Strip(FirstMarkerRemainder(loc[c].collected_text)) # <<>>)

C16_Witness ==
    \E c \in Conns :
        /\ handler[c] = AS
        /\ Cardinality(MarkerLines(loc[c].collected_text)) = 2
        /\ \E i \in Events(c, "generate_image") : log[c][i].a = <<"d", ":", "e">>

\* ---------------------------------------------------------------- C17
\* the inline data of the first part of an image response that has some; the
\* parts of the response, else those of its first candidate
FirstInline(r) ==
    LET ps == IF r.parts # <<>> THEN r.parts
              ELSE IF r.candidates # <<>> THEN r.candidates[1] ELSE <<>>
        ks == {k \in DOMAIN ps : ps[k].inline_data.present}
    IN  IF ks = {} THEN NoBlob
        ELSE ps[CHOOSE k \in ks : \A j \in ks : k <= j].inline_data

\* C17: after the image model has been called no error message is sent and
\* nothing is sent but at most one image message, the first inline part of
\* the response; nothing at all when the call raised, returned no inline
\* data or the image could not be saved; the handler then closes the
\* connection once.
C17_FollowUpContained ==
    \A c \in Conns : handler[c] = AS =>
        \A i \in Events(c, "generate_image") :
            /\ Sends(c, {"error"}) = {}
            /\ Cardinality({j \in Events(c, "send") : j > i}) <= 1
            /\ \A j \in Events(c, "send") : j > i =>
                  /\ log[c][i].out = "ok"
                  /\ FirstInline(log[c][i].response).present
                  /\ log[c][j].a = JsonFrame(ImageMsg(FirstInline(log[c][i].response)))
                  /\ \E w \in Events(c, "write") :
                        i < w /\ w < j /\ log[c][w].out = "ok"
            /\ \A j \in Sends(c, {"text"}) : j < i
            /\ pc[c] \notin {"except_disconnect", "except_exception"}
            /\ Terminated(c) =>
                  Cardinality({k \in Events(c, "close") : k > i}) = 1

C17_Witness ==
    \E c \in Conns :
        /\ handler[c] = AS /\ pc[c] = "done" /\ Sends(c, {"text"}) # {}
        /\ \E i \in Events(c, "generate_image") :
              /\ log[c][i].out = "ok"
              /\ Len(log[c][i].response.parts) = 2
              /\ \E j \in Sends(c, {"image"}) : j > i /\ log[c][j].out # "ok"

\* ---------------------------------------------------------------- C18
\* the concatenation of a sequence of texts
RECURSIVE Flatten(_)
Flatten(ts) == IF ts = <<>> THEN <<>> ELSE Head(ts) \o Flatten(Tail(ts))

\* the answer text: the increments the provider emitted, joined
AnswerText(c) == Flatten(IncrementsTaken(log[c]))

\* C18: the collected text is the concatenation of the data of the text
\* messages sent and, once the stream has ended, the answer text itself; the
\* decision to call the image model and the prompt passed are those computed
\* from the answer text as a whole, whatever increments it came in.
C18_ChunkingIndependent ==
    \A c \in Conns : handler[c] = AS =>
        /\ loc[c].collected_text = Flatten(TextsSent(log[c], FALSE))
        /\ StreamEnded(c) =>
              /\ loc[c].collected_text = Flatten(TextsSent(log[c], TRUE))
              /\ loc[c].collected_text = AnswerText(c)
              /\ \A i \in Events(c, "generate_image") :
                    log[c][i].a = ImagePromptOf(AnswerText(c))
              /\ pc[c] # "followup" =>
                    (Events(c, "generate_image") # {}
                        <=> ImagePromptOf(AnswerText(c)) # <<>>)

C18_Witness ==
    \E c \in Conns :
        /\ handler[c] = AS
        /\ \E i, j, k \in Events(c, "chunk") :
              /\ i < j /\ j < k
              /\ log[c][i].out = "ok" /\ log[c][i].a.text = <<"I","M","A","G","E","_">>
              /\ log[c][j].out = "ok" /\ log[c][j].a.text = <<>>
              /\ log[c][k].out = "ok"
        /\ \E i \in Events(c, "generate_image") : log[c][i].a = <<"c">>

\* ---------------------------------------------------------------- C19
\* the message for the key that is found missing first
MissingKeyMsg ==
    IF ~env.DEEPGRAM_API_KEY
    THEN JsonFrame(ErrorMsg(<<"DEEPGRAM_API_KEY not set. Get one at https://deepgram.com">>))
    ELSE JsonFrame(ErrorMsg(<<"GEMINI_API_KEY not set">>))

\* with a key missing nothing is received, captured or asked, and nothing is
\* sent but the one error message
OnlyMissingKeyMsg(c) ==
    /\ \A i \in DOMAIN log[c] : log[c][i].ev \in {"accept", "send", "close"}
    /\ Cardinality(Events(c, "send")) <= 1
    /\ \A i \in Events(c, "send") : log[c][i].a = MissingKeyMsg

OwnImage(c) ==
    \A i \in Events(c, "generate_content") :
        \A k \in DOMAIN log[c][i].a :
            log[c][i].a[k].kind = "image" => log[c][i].a[k].img = c

\* every image connection c handed to the provider is a screenshot c
\* captured, unless its capture wrote no file
OwnImageIfWritten(c) ==
    \A i \in Events(c, "generate_content") :
        \A k \in DOMAIN log[c][i].a :
            log[c][i].a[k].kind = "image" =>
                \/ log[c][i].a[k].img = c
                \/ \E j \in Events(c, "capture") :
                      j < i /\ log[c][j].out = "ok" /\ ~log[c][j].wrote

CleansUp(c) ==
    /\ pc'[c] # pc[c]
    /\ \/ handler[c] = HC /\ pc[c] = "stream" /\ loc[c].words = <<>>
       \/ handler[c] = AG /\ pc[c] = "cleanup"

\* C21 as stated: with two voice connections on one event loop, from a
\* connection's capture to the completion of its awaited provider call no
\* step overwrites or removes the screenshot file, the image the provider
\* is given is the file on disk, and a connection's clean-up finds the
\* file it opened.
C21_NoInterference ==
    [][\A c \in Clients : handler[c] \in VoiceConcHandlers =>
          /\ pc[c] = "call" =>
                /\ fs'[ScreenshotPath(handler[c])] = fs[ScreenshotPath(handler[c])]
                /\ loc[c].img = fs[ScreenshotPath(handler[c])]
          /\ CleansUp(c) => fs[ScreenshotPath(handler[c])] = loc[c].img]_vars

====
